---- MODULE Spec2Model ----
(***************************************************************************)
(* Model of the news-ingestion pipeline of static/scrape_news_to_csv.py:   *)
(* the pagination crawler scrape(), the article extractor parse_article(), *)
(* the content localiser (ensure_download_image, fix_internal_links,       *)
(* clean_and_localise_html), the text normalisers and main().              *)
(*                                                                         *)
(* Characters are modelled as strings: Latin letters and digits stand for  *)
(* themselves, Cyrillic letters carry ASCII names ("cyr_shcha" is the      *)
(* letter SHCHA), combining marks are "breve" and "diaeresis".             *)
(***************************************************************************)
EXTENDS Integers, Sequences, FiniteSets, TLC

\* Python's None where the value is otherwise an int or a string, and where
\* it is otherwise a record.
None == -2

Nil == [nil |-> TRUE]

----------------------------------------------------------------------------
(* Bounds of the model *)

\* article URLs are 1..MaxUrl
MaxUrl == 2
\* the crawler is run at most MaxRuns times against the same asset directory
MaxRuns == 2
\* a run visits at most MaxVisits listing pages (caps pages_processed)
MaxVisits == 2

----------------------------------------------------------------------------
(* slugify *)

LatinLower == {"a", "b", "c", "d", "e", "f", "g", "h", "i", "j", "k", "l", "m",
               "n", "o", "p", "q", "r", "s", "t", "u", "v", "w", "x", "y", "z"}

Digits == {"0", "1", "2", "3", "4", "5", "6", "7", "8", "9"}

\* str.lower() on one character: the upper-case letters of the model's
\* alphabet and their lower-case forms.
Lower(ch) ==
    CASE ch = "A" -> "a"
      [] ch = "Z" -> "z"
      [] ch = "CYR_SHCHA" -> "cyr_shcha"
      [] ch = "CYR_SHORT_I" -> "cyr_short_i"
      [] ch = "CYR_YI" -> "cyr_yi"
      [] OTHER -> ch

\* unicodedata.normalize("NFKD", .) on one character: the letters with a
\* canonical decomposition split into base letter and combining mark
\* (U+0439 = U+0438 U+0306, U+0457 = U+0456 U+0308, U+0451 = U+0435 U+0308).
NFKD(ch) ==
    CASE ch = "cyr_short_i" -> <<"cyr_i", "breve">>
      [] ch = "cyr_yi" -> <<"cyr_ukr_i", "diaeresis">>
      [] ch = "cyr_io" -> <<"cyr_ie", "diaeresis">>
      [] OTHER -> <<ch>>

\* mapping.get(ch, ch): the transliteration table of slugify.
Translit(ch) ==
    CASE ch = "cyr_a" -> <<"a">>
      [] ch = "cyr_be" -> <<"b">>
      [] ch = "cyr_ve" -> <<"v">>
      [] ch = "cyr_ghe" -> <<"h">>
      [] ch = "cyr_ghe_upturn" -> <<"g">>
      [] ch = "cyr_de" -> <<"d">>
      [] ch = "cyr_ie" -> <<"e">>
      [] ch = "cyr_ukr_ie" -> <<"y", "e">>
      [] ch = "cyr_io" -> <<"y", "o">>
      [] ch = "cyr_zhe" -> <<"z", "h">>
      [] ch = "cyr_ze" -> <<"z">>
      [] ch = "cyr_i" -> <<"y">>
      [] ch = "cyr_ukr_i" -> <<"i">>
      [] ch = "cyr_yi" -> <<"y", "i">>
      [] ch = "cyr_short_i" -> <<"y">>
      [] ch = "cyr_ka" -> <<"k">>
      [] ch = "cyr_el" -> <<"l">>
      [] ch = "cyr_em" -> <<"m">>
      [] ch = "cyr_en" -> <<"n">>
      [] ch = "cyr_o" -> <<"o">>
      [] ch = "cyr_pe" -> <<"p">>
      [] ch = "cyr_er" -> <<"r">>
      [] ch = "cyr_es" -> <<"s">>
      [] ch = "cyr_te" -> <<"t">>
      [] ch = "cyr_u" -> <<"u">>
      [] ch = "cyr_ef" -> <<"f">>
      [] ch = "cyr_ha" -> <<"k", "h">>
      [] ch = "cyr_tse" -> <<"t", "s">>
      [] ch = "cyr_che" -> <<"c", "h">>
      [] ch = "cyr_sha" -> <<"s", "h">>
      [] ch = "cyr_shcha" -> <<"s", "h", "c", "h">>
      [] ch = "cyr_soft" -> <<>>
      [] ch = "cyr_yeru" -> <<"y">>
      [] ch = "cyr_hard" -> <<>>
      [] ch = "cyr_e" -> <<"e">>
      [] ch = "cyr_yu" -> <<"y", "u">>
      [] ch = "cyr_ya" -> <<"y", "a">>
      [] OTHER -> <<ch>>

KeepCase(s) == s

RECURSIVE LowerAll(_)
\* text.lower()
LowerAll(s) ==
    IF s = <<>> THEN <<>> ELSE <<Lower(Head(s))>> \o LowerAll(Tail(s))

RECURSIVE NFKDAll(_)
\* unicodedata.normalize("NFKD", s)
NFKDAll(s) ==
    IF s = <<>> THEN <<>> ELSE NFKD(Head(s)) \o NFKDAll(Tail(s))

RECURSIVE TranslitAll(_)
\* "".join(mapping.get(ch, ch) for ch in s)
TranslitAll(s) ==
    IF s = <<>> THEN <<>> ELSE Translit(Head(s)) \o TranslitAll(Tail(s))

RECURSIVE HyphenateRuns(_, _)
\* re.sub(r"[^a-z0-9]+", "-", s): inRun says that the previous character
\* already belonged to the run being replaced.
HyphenateRuns(s, inRun) ==
    IF s = <<>> THEN <<>>
    ELSE IF Head(s) \in LatinLower \cup Digits
         THEN <<Head(s)>> \o HyphenateRuns(Tail(s), FALSE)
         ELSE IF inRun THEN HyphenateRuns(Tail(s), TRUE)
              ELSE <<"-">> \o HyphenateRuns(Tail(s), TRUE)

RECURSIVE CollapseHyphens(_)
\* re.sub(r"-{2,}", "-", s)
CollapseHyphens(s) ==
    IF Len(s) < 2 THEN s
    ELSE IF s[1] = "-" /\ s[2] = "-" THEN CollapseHyphens(Tail(s))
         ELSE <<Head(s)>> \o CollapseHyphens(Tail(s))

RECURSIVE StripLeft(_)
StripLeft(s) ==
    IF s # <<>> /\ Head(s) = "-" THEN StripLeft(Tail(s)) ELSE s

RECURSIVE StripRight(_)
StripRight(s) ==
    IF s # <<>> /\ s[Len(s)] = "-" THEN StripRight(SubSeq(s, 1, Len(s) - 1)) ELSE s

StripLeftOnly(s) == StripLeft(s)

\* str.strip("-")
StripHyphens(s) == StripRight(StripLeft(s))

Untitled == <<"u", "n", "t", "i", "t", "l", "e", "d">>

slugify(text) ==
    LET normal == NFKDAll(LowerAll(text))
        translit == TranslitAll(normal)
        hyphened == HyphenateRuns(translit, FALSE)
        trimmed == StripHyphens(CollapseHyphens(hyphened))
    IN  IF trimmed = <<>> THEN Untitled ELSE trimmed

----------------------------------------------------------------------------
(* normalise_date *)

\* MONTH_MAP: the genitive month names (Russian, then Ukrainian, written in
\* Latin letters here) and their zero-padded numbers; None for a word that
\* is no key of the table (MONTH_MAP.get gives None, here "").
MONTH_MAP(name) ==
    CASE name \in {"yanvarya", "sichnya"} -> "01"
      [] name \in {"fevralya", "lyutoho"} -> "02"
      [] name \in {"marta", "bereznya"} -> "03"
      [] name \in {"aprelya", "kvitnya"} -> "04"
      [] name \in {"maya", "travnya"} -> "05"
      [] name \in {"iyunya", "chervnya"} -> "06"
      [] name \in {"iyulya", "lypnya"} -> "07"
      [] name \in {"avgusta", "serpnya"} -> "08"
      [] name \in {"sentyabrya", "veresnya"} -> "09"
      [] name \in {"oktyabrya", "zhovtnya"} -> "10"
      [] name \in {"noyabrya", "lystopada"} -> "11"
      [] name \in {"dekabrya", "hrudnya"} -> "12"
      [] OTHER -> ""

\* A raw date text is modelled by what the two regular expressions of the
\* code see in it:
\*   shape "dmy":  <day> <word> ... <year>, the text the pattern of
\*                 normalise_date matches: day is the one or two digits of
\*                 the first group, month the word of the second, year the
\*                 four digits of the third;
\*   shape "iso":  a text that starts with YYYY-MM- and that the pattern of
\*                 normalise_date does not match (an ISO timestamp);
\*   shape "text": any other text, the empty text included.
\* padded says that the text starts or ends with white space.
\* The result is the ISO date (shape "isodate": the text year-month-day) or
\* the raw text stripped.
DigitSeq == <<"0", "1", "2", "3", "4", "5", "6", "7", "8", "9">>

\* int(c) for one decimal digit
DigitValue(c) == CHOOSE n \in 0 .. 9 : DigitSeq[n + 1] = c

\* int(day) for the one or two digits of the day group
DayInt(day) ==
    IF Len(day) = 1 THEN DigitValue(day[1])
    ELSE 10 * DigitValue(day[1]) + DigitValue(day[2])

\* f"{n:02d}" for 0 <= n <= 99
Pad2(n) ==
    IF n < 10 THEN <<"0", DigitSeq[n + 1]>>
    ELSE <<DigitSeq[(n \div 10) + 1], DigitSeq[(n % 10) + 1]>>

\* raw.strip()
Strip(raw) == [raw EXCEPT !.padded = FALSE]

normalise_date(raw) ==
    IF raw.shape # "dmy" THEN Strip(raw)
    ELSE IF MONTH_MAP(raw.month) = "" THEN Strip(raw)
    ELSE [shape |-> "isodate", year |-> raw.year,
          month |-> MONTH_MAP(raw.month), day |-> Pad2(DayInt(raw.day))]

\* re.match(r"(\d{4})-(\d{2})-", date) in parse_article, with the fallback
\* period ("2025", "01").
DateHints(date) ==
    IF date.shape \in {"isodate", "iso"}
    THEN <<date.year, date.month>>
    ELSE <<"2025", "01">>

----------------------------------------------------------------------------
(* ensure_download_image *)

\* An image source is [name, ok]: the file name of its URL path and whether
\* an HTTP GET of the URL succeeds. The destination path is
\* ASSETS_ROOT/<year>/<month>/<name>; files is the set of paths that exist.
\* net is the sequence of the network downloads issued.
DestPath(src, year, month) == <<"assets/news", year, month, src.name>>

ensure_download_image_always(src, year, month, files) ==
    LET dest_path == DestPath(src, year, month)
    IN  [path |-> dest_path,
         files |-> IF src.ok THEN files \cup {dest_path} ELSE files,
         net |-> <<dest_path>>]

ensure_download_image_touch(src, year, month, files) ==
    LET dest_path == DestPath(src, year, month)
    IN  [path |-> dest_path,
         files |-> files \cup {dest_path},
         net |-> IF dest_path \notin files THEN <<dest_path>> ELSE <<>>]

\* requests.get or raise_for_status raises for a source that is not ok: the
\* except clause catches it before write_bytes, and the path is returned.
ensure_download_image(src, year, month, files) ==
    LET dest_path == DestPath(src, year, month)
    IN  IF dest_path \notin files
        THEN [path |-> dest_path,
              files |-> IF src.ok THEN files \cup {dest_path} ELSE files,
              net |-> <<dest_path>>]
        ELSE [path |-> dest_path, files |-> files, net |-> <<>>]

----------------------------------------------------------------------------
(* fix_internal_links *)

\* PROTOCOL_LINKS in the order of the table; a hyperlink names the keywords
\* it contains by their positions in this table.
PROTOCOL_LINKS ==
    << [kw |-> "protokol_cyr", url |-> "protocols.html"],
       [kw |-> "protocol", url |-> "protocols.html"],
       [kw |-> "rehlament_cyr", url |-> "regulations.html"],
       [kw |-> "regulation", url |-> "regulations.html"],
       [kw |-> "polozhennya_cyr", url |-> "regulations.html"] >>

\* The article URLs are 1..MaxUrl. ARTICLE_RE.search(url).group(1): two
\* URLs may carry the same numeric ID (the text after the ID differs).
NumericId(url) == (url \div 2) + 1

\* A hyperlink of a body is [href, text]: href is
\*   [kind |-> "source", internal, id, kws], where internal says that the
\*   href contains "ukrainejudo.com/news/" or starts with "/news/" and that
\*   ARTICLE_RE matches it with the numeric ID id, and kws are the keywords
\*   href.lower() contains; text is the set of keywords of the link text.
\* A rewritten href is [kind |-> "local", slug] or [kind |-> "canonical", url].
FirstKeyword(kws) ==
    IF kws = {} THEN 0 ELSE CHOOSE i \in kws : \A j \in kws : i <= j

FixLinkAnyArticle(a, map) ==
    IF a.href.internal
    THEN [a EXCEPT !.href = [kind |-> "local",
                             slug |-> IF a.href.id \in DOMAIN map
                                      THEN map[a.href.id] ELSE Untitled]]
    ELSE a

FixLinkNoContinue(a, map) ==
    LET k == FirstKeyword(a.text \cup a.href.kws)
    IN  IF k # 0
        THEN [a EXCEPT !.href = [kind |-> "canonical",
                                 url |-> PROTOCOL_LINKS[k].url]]
        ELSE IF a.href.internal /\ a.href.id \in DOMAIN map
        THEN [a EXCEPT !.href = [kind |-> "local", slug |-> map[a.href.id]]]
        ELSE a

\* One iteration of the loop of fix_internal_links.
FixLink(a, map) ==
    IF a.href.internal /\ a.href.id \in DOMAIN map
    THEN [a EXCEPT !.href = [kind |-> "local", slug |-> map[a.href.id]]]
    ELSE LET k == FirstKeyword(a.text \cup a.href.kws)
         IN  IF k = 0 THEN a
             ELSE [a EXCEPT !.href = [kind |-> "canonical",
                                      url |-> PROTOCOL_LINKS[k].url]]

fix_internal_links(links, map) ==
    [i \in DOMAIN links |-> FixLink(links[i], map)]

----------------------------------------------------------------------------
(* clean_and_localise_html, find_preview_src, parse_article *)

RECURSIVE LocaliseImages(_, _, _, _)
\* The image loop of clean_and_localise_html: every img src becomes the
\* local path ensure_download_image returns; files and net are threaded
\* through the calls in document order.
LocaliseImages(imgs, year, month, files) ==
    IF imgs = <<>> THEN [paths |-> <<>>, files |-> files, net |-> <<>>]
    ELSE LET first == ensure_download_image(Head(imgs), year, month, files)
             rest == LocaliseImages(Tail(imgs), year, month, first.files)
         IN  [paths |-> <<first.path>> \o rest.paths,
              files |-> rest.files,
              net |-> first.net \o rest.net]

\* html_content = "" of parse_article: no image, no link.
EmptyHtml == [imgs |-> <<>>, links |-> <<>>]

\* A body is [imgs, links]; the html is the body with the image sources
\* localised and the links rewritten (ALL_ARTICLES_MAP is the parameter map).
clean_and_localise_html(body, year, month, map, files) ==
    LET images == LocaliseImages(body.imgs, year, month, files)
    IN  [html |-> [imgs |-> images.paths,
                   links |-> fix_internal_links(body.links, map)],
         files |-> images.files,
         net |-> images.net]

\* find_preview_src: the og:image / twitter:image content (page.meta), else
\* the src of the first img of the body. parse_article calls it after
\* clean_and_localise_html, so that src is the local path by then: the URL
\* it is joined to has the same file name, and page.localOk says whether a
\* GET of that URL succeeds.
find_preview_src(page) ==
    IF page.meta # Nil THEN page.meta
    ELSE IF page.body # Nil /\ page.body.imgs # <<>>
    THEN [name |-> page.body.imgs[1].name, ok |-> page.localOk]
    ELSE Nil

\* An article page is [ok, titled, title, date, body, meta, localOk]:
\*   ok      the HTTP GET of the page succeeds;
\*   titled  the page has one of h2.header, h1, title;
\*   title   the text of the first of them;
\*   date    the raw date text ("text" shape when no date element exists),
\*           shape "none" for a meta tag without a content attribute
\*           (date_tag.get("content") is None);
\*   body    the body container, Nil when no selector matches;
\*   meta    the og:image / twitter:image source, Nil without one.
\* The result names how the call ends: "exit" (fetch_soup called sys.exit),
\* "raise" (an Exception left parse_article) or "ok" (data is the record).
RegisterNothing(map, numeric_id, article_id) == map

\* ALL_ARTICLES_MAP[numeric_id] = article_id
Register(map, numeric_id, article_id) ==
    [k \in DOMAIN map \cup {numeric_id} |->
        IF k = numeric_id THEN article_id ELSE map[k]]

ParseRaiseRegistered(map, files) ==
    [outcome |-> "raise", data |-> Nil,
     map |-> Register(map, 1, <<"a">>), files |-> files, net |-> <<>>]

ParseRaise(map, files) ==
    [outcome |-> "raise", data |-> Nil, map |-> map, files |-> files, net |-> <<>>]

parse_article(url, page, map, files) ==
    IF ~page.ok
    THEN [outcome |-> "exit", data |-> Nil, map |-> map, files |-> files,
          net |-> <<>>]
    ELSE IF ~page.titled
    THEN ParseRaise(map, files)   \* soup.title is None: AttributeError
    ELSE IF page.date.shape = "none"
    THEN ParseRaise(map, files)   \* re.search on None: TypeError
    ELSE
    LET date == normalise_date(page.date)
        year_str == DateHints(date)[1]
        month_str == DateHints(date)[2]
        cleaned == IF page.body # Nil
                   THEN clean_and_localise_html(page.body, year_str, month_str,
                                                map, files)
                   ELSE [html |-> EmptyHtml, files |-> files, net |-> <<>>]
        preview_src == find_preview_src(page)
        preview == IF preview_src # Nil
                   THEN ensure_download_image(preview_src, year_str, month_str,
                                              cleaned.files)
                   ELSE [path |-> <<>>, files |-> cleaned.files, net |-> <<>>]
        article_id == slugify(page.title)
        numeric_id == NumericId(url)
    IN  [outcome |-> "ok",
         data |-> [id |-> article_id, title |-> page.title, date |-> date,
                   url |-> url, html |-> cleaned.html, image |-> preview.path],
         map |-> Register(map, numeric_id, article_id),
         files |-> preview.files,
         net |-> cleaned.net \o preview.net]

----------------------------------------------------------------------------
(* The inputs: what the site answers *)

Urls == 1 .. MaxUrl

\* A listing URL is its start offset; NoStart is a listing URL without a
\* start= parameter (a next-page href may be any URL).
NoStart == -1

\* The start offsets of the listing pages: 0, and 10 for any other offset.
Offsets == {0, 10}

PageUrls == Offsets \cup {NoStart}

\* The values of --max-pages, --max-articles and --end-article: not given,
\* or a number. A run handles at most 2 * MaxVisits links, so that 0, 1
\* and 2 are limits a run reaches.
Limits == {None, 0, 1, 2}

RECURSIVE InjectiveSeqs(_, _)
\* the sequences without repetition over S of length at most n
InjectiveSeqs(S, n) ==
    IF n = 0 THEN {<<>>}
    ELSE LET shorter == InjectiveSeqs(S, n - 1)
         IN  shorter \cup
             UNION {{Append(q, x) : x \in S \ {q[i] : i \in DOMAIN q}} :
                    q \in shorter}

\* extract_article_links returns the article hrefs of a listing page in
\* document order, each once.
LinkLists == InjectiveSeqs(Urls, 2)

\* What a GET of a listing page answers: a failure, or a page with its
\* article links and its next-page link (None when the page has none).
ListingResults ==
    {[ok |-> FALSE, links |-> <<>>, next |-> None]} \cup
    {[ok |-> TRUE, links |-> l, next |-> n] : l \in LinkLists,
                                               n \in PageUrls \cup {None}}

TitleA == <<"CYR_SHCHA", "cyr_short_i", " ", "1">>

TitleB == <<"a", "-", "cyr_soft">>

DateDmy ==
    [shape |-> "dmy", day |-> <<"1", "4">>, month |-> "lyutoho", year |-> "2024",
     padded |-> FALSE]

DateText == [shape |-> "text", padded |-> FALSE]

DateNoContent == [shape |-> "none"]

PlainPage ==
    [ok |-> TRUE, titled |-> TRUE, title |-> TitleA, date |-> DateDmy,
     body |-> Nil, meta |-> Nil, localOk |-> FALSE]

\* The article pages of the crawl: an unreachable page, a page without any
\* title element, and two pages that parse.
CrawlPages ==
    { [PlainPage EXCEPT !.ok = FALSE],
      [PlainPage EXCEPT !.titled = FALSE],
      PlainPage,
      [PlainPage EXCEPT !.title = TitleB, !.date = DateText] }

----------------------------------------------------------------------------
(* The state of a run of main() *)

VARIABLES
    start, max_pages, max_articles, end_article,  \* the arguments of scrape
    records, seen_links, page_url, pages_processed, last_offset,
    article_count,              \* the locals of scrape
    links, idx, next_url,       \* the for loop: links, position, find_next_page(soup)
    pc,                         \* "loop", "links": in scrape; "write": scrape
                                \* has returned; "done", "aborted": exited
    ALL_ARTICLES_MAP,           \* the module-level dictionary
    files,                      \* the paths that exist under ASSETS_ROOT
    out_file,                   \* the output file: Nil, or [rows] as written
    writes,                     \* how often the output file was written
    exit,                       \* Nil while running, else [status, cause]
    list_gets, article_gets,    \* the HTTP GETs issued: listing / article pages
    list_failed,                \* a GET of a listing page has failed
    fetched,                    \* the listing URLs that were fetched
    encountered,                \* article URL -> <<page, position>> where a
                                \* fetched listing page first showed it
    call,                       \* the last call of parse_article
    run                         \* the number of the run against files

vars == <<start, max_pages, max_articles, end_article, records, seen_links,
          page_url, pages_processed, last_offset, article_count, links, idx,
          next_url, pc, ALL_ARTICLES_MAP, files, out_file, writes, exit,
          list_gets, article_gets, list_failed, fetched, encountered,
          call, run>>

args == <<start, max_pages, max_articles, end_article>>

EmptyMap == [k \in {} |-> <<>>]

\* no article URL was shown by a listing page yet
NoEncounter == [u \in {} |-> <<0, 0>>]

\* the listing page number page has shown the links l: the URLs that no
\* earlier page has shown are first encountered there, at their positions
Encounter(enc, l, page) ==
    [u \in DOMAIN enc \cup {l[i] : i \in DOMAIN l} |->
        IF u \in DOMAIN enc THEN enc[u]
        ELSE <<page, CHOOSE i \in DOMAIN l : l[i] = u>>]

\* main() has parsed its arguments and enters scrape().
Init ==
    /\ start \in Offsets
    /\ max_pages \in Limits
    /\ max_articles \in Limits
    /\ end_article \in Limits
    /\ records = <<>>
    /\ seen_links = {}
    /\ page_url = start
    /\ pages_processed = 0
    /\ last_offset = start
    /\ article_count = 0
    /\ links = <<>>
    /\ idx = 1
    /\ next_url = None
    /\ pc = "loop"
    /\ ALL_ARTICLES_MAP = EmptyMap
    /\ files = {}
    /\ out_file = Nil
    /\ writes = 0
    /\ exit = Nil
    /\ list_gets = 0
    /\ article_gets = 0
    /\ list_failed = FALSE
    /\ fetched = {}
    /\ encountered = NoEncounter
    /\ call = Nil
    /\ run = 1

----------------------------------------------------------------------------
(* scrape *)

\* _extract_start_offset
_extract_start_offset(url) == IF url = NoStart THEN None ELSE url

\* current_offset = _extract_start_offset(page_url) or last_offset:
\* Python's "or" takes the right operand for None and for 0.
CurrentOffset(url, last) ==
    IF _extract_start_offset(url) \in {None, 0} THEN last
    ELSE _extract_start_offset(url)

WhileGuardInclusive(url, maxp, processed) ==
    url # None /\ (maxp = None \/ processed <= maxp)

\* the condition of the while loop
WhileGuard(url, maxp, processed) ==
    url # None /\ (maxp = None \/ processed < maxp)

FetchSoupEmptyOnError(ok) == IF ok THEN "soup" ELSE "empty soup"

\* fetch_soup: the parsed page, or sys.exit(message), which raises
\* SystemExit.
fetch_soup(ok) == IF ok THEN "soup" ELSE "SystemExit"

NoLinksContinue(l) == FALSE

\* "if not links: break"
NoLinksBreak(l) == l = <<>>

LimitReachedBothSet(count, maxa, enda) ==
    /\ maxa # None /\ enda # None
    /\ (count > maxa \/ count > enda)

LimitReachedLate(count, maxa, enda) ==
    \/ maxa # None /\ count > maxa + 1
    \/ enda # None /\ count > enda + 1

LimitReachedMaxOnly(count, maxa, enda) ==
    maxa # None /\ count > maxa

\* the limit check of the for loop, on the incremented article_count
LimitReached(count, maxa, enda) ==
    \/ maxa # None /\ count > maxa
    \/ enda # None /\ count > enda

PrependRecord(recs, data) == <<data>> \o recs

\* records.append(data)
AddRecord(recs, data) == Append(recs, data)

NeverSeen(link, seen) == FALSE

\* "if link in seen_links: continue"
AlreadySeen(link, seen) == link \in seen

\* "except Exception": SystemExit derives from BaseException only.
ExceptException(outcome) == outcome = "raise"

\* The head of the while loop up to the for loop: one listing page is
\* fetched, links = extract_article_links(soup); next_url stands for
\* find_next_page(soup) of this soup.
ListingPage ==
    /\ pc = "loop"
    /\ WhileGuard(page_url, max_pages, pages_processed)
    /\ pages_processed < MaxVisits
    /\ pages_processed' = pages_processed + 1
    /\ last_offset' = CurrentOffset(page_url, last_offset)
    /\ list_gets' = list_gets + 1
    /\ fetched' = fetched \cup {page_url}
    /\ \E res \in ListingResults :
          /\ list_failed' = (list_failed \/ ~res.ok)
          /\ IF fetch_soup(res.ok) = "SystemExit"
             THEN /\ pc' = "aborted"
                  /\ exit' = [status |-> 1, cause |-> "listing"]
                  /\ UNCHANGED <<links, idx, next_url, encountered>>
             ELSE /\ links' = (IF res.ok THEN res.links ELSE <<>>)
                  /\ encountered' =
                         Encounter(encountered, links', pages_processed')
                  /\ next_url' = (IF res.ok THEN res.next ELSE None)
                  /\ idx' = 1
                  /\ exit' = exit
                  /\ pc' = IF NoLinksBreak(links') THEN "write" ELSE "links"
    /\ UNCHANGED <<args, records, seen_links, page_url, article_count,
                   ALL_ARTICLES_MAP, files, out_file, writes, article_gets,
                   call, run>>

\* The while condition is false: scrape returns.
LoopEnd ==
    /\ pc = "loop"
    /\ ~WhileGuard(page_url, max_pages, pages_processed)
    /\ pc' = "write"
    /\ UNCHANGED <<args, records, seen_links, page_url, pages_processed,
                   last_offset, article_count, links, idx, next_url,
                   ALL_ARTICLES_MAP, files, out_file, writes, exit, list_gets,
                   article_gets, call, run,
                   list_failed, fetched, encountered>>

\* One iteration of the for loop.
ArticleLink ==
    /\ pc = "links"
    /\ idx <= Len(links)
    /\ article_count' = article_count + 1
    /\ LET link == links[idx]
       IN  IF LimitReached(article_count + 1, max_articles, end_article)
           THEN /\ pc' = "write"
                /\ UNCHANGED <<records, seen_links, idx, ALL_ARTICLES_MAP,
                               files, exit, article_gets, call>>
           ELSE IF AlreadySeen(link, seen_links)
           THEN /\ idx' = idx + 1
                /\ UNCHANGED <<records, seen_links, pc, ALL_ARTICLES_MAP,
                               files, exit, article_gets, call>>
           ELSE /\ seen_links' = seen_links \cup {link}
                /\ article_gets' = article_gets + 1
                /\ \E page \in CrawlPages :
                      \E res \in {parse_article(link, page, ALL_ARTICLES_MAP, files)} :
                          /\ call' = [url |-> link, page |-> page,
                                      map |-> ALL_ARTICLES_MAP, files |-> files,
                                      res |-> res]
                          /\ ALL_ARTICLES_MAP' = res.map
                          /\ files' = res.files
                          /\ IF res.outcome = "ok"
                             THEN /\ records' = AddRecord(records, res.data)
                                  /\ idx' = idx + 1
                                  /\ UNCHANGED <<pc, exit>>
                             ELSE IF ExceptException(res.outcome)
                             THEN /\ idx' = idx + 1
                                  /\ UNCHANGED <<records, pc, exit>>
                             ELSE /\ pc' = "aborted"
                                  /\ exit' = [status |-> 1, cause |-> "article"]
                                  /\ UNCHANGED <<records, idx>>
    /\ UNCHANGED <<args, page_url, pages_processed, last_offset, links,
                   next_url, out_file, writes, list_gets, run,
                   list_failed, fetched, encountered>>

\* The for loop is over: page_url = find_next_page(soup).
NextPage ==
    /\ pc = "links"
    /\ idx > Len(links)
    /\ page_url' = next_url
    /\ pc' = "loop"
    /\ UNCHANGED <<args, records, seen_links, pages_processed, last_offset,
                   article_count, links, idx, next_url, ALL_ARTICLES_MAP,
                   files, out_file, writes, exit, list_gets, article_gets,
                   call, run,
                   list_failed, fetched, encountered>>

----------------------------------------------------------------------------
(* main *)

\* write_json(rows, path) after scrape has returned: the file is written,
\* or mkdir / open raises and the process ends with a traceback (status 1).
WriteJson ==
    /\ pc = "write"
    /\ \E ok \in BOOLEAN :
          IF ok
          THEN /\ out_file' = [rows |-> records]
               /\ writes' = writes + 1
               /\ pc' = "done"
               /\ exit' = [status |-> 0, cause |-> "end"]
          ELSE /\ pc' = "aborted"
               /\ exit' = [status |-> 1, cause |-> "write_json"]
               /\ UNCHANGED <<out_file, writes>>
    /\ UNCHANGED <<args, records, seen_links, page_url, pages_processed,
                   last_offset, article_count, links, idx, next_url,
                   ALL_ARTICLES_MAP, files, list_gets, article_gets, call, run,
                   list_failed, fetched, encountered>>

Next == ListingPage \/ LoopEnd \/ ArticleLink \/ NextPage \/ WriteJson

Spec == Init /\ [][Next]_vars

\* The runs with a limit: main() is started with --start 0 and with one of
\* --max-pages, --max-articles, --end-article, or with all three. The
\* program is sequential and every fetch returns, so the step that is
\* enabled is taken.
LimitedArgs ==
    { <<1, None, None>>, <<2, None, None>>, <<None, 0, None>>,
      <<None, 1, None>>, <<None, None, 1>>, <<2, 1, 1>> }

InitLimited ==
    /\ Init
    /\ start = 0
    /\ <<max_pages, max_articles, end_article>> \in LimitedArgs

\* A step of the for loop over the links of a page is possible exactly when
\* the loop has a link left, and the interpreter then takes it: weak
\* fairness of ArticleLink, with its enabling condition written out.
ForLoopFair ==
    \/ []<>~(pc = "links" /\ idx <= Len(links))
    \/ []<><<ArticleLink>>_vars

SpecLimited ==
    /\ InitLimited
    /\ [][Next]_vars
    /\ WF_vars(ListingPage \/ LoopEnd \/ NextPage \/ WriteJson)
    /\ ForLoopFair

----------------------------------------------------------------------------
(* The article extractor on its own: parse_article is called, as by the    *)
(* for loop of scrape, on one unseen link after the other, over a wider    *)
(* set of article pages; a further run of the program starts with an empty *)
(* ALL_ARTICLES_MAP against the same asset directory.                      *)

ArticleUrls == 1 .. 2

ArticleIds == {NumericId(u) : u \in ArticleUrls}

KwText == {{}, {1}, {3, 4}}

KwHref == {{}, {2}}

\* The hyperlinks of a body: links to an article of the site, and others.
BodyLinks ==
    {[href |-> [kind |-> "source", internal |-> TRUE, id |-> i, kws |-> h],
      text |-> t] : i \in ArticleIds, h \in KwHref, t \in KwText}
    \cup
    {[href |-> [kind |-> "source", internal |-> FALSE, id |-> 0, kws |-> h],
      text |-> t] : h \in KwHref, t \in KwText}

ImgA(ok) == [name |-> "a.jpg", ok |-> ok]

ImgB(ok) == [name |-> "b.jpg", ok |-> ok]

ArticlePages ==
    \* pages that do not parse
    { [PlainPage EXCEPT !.ok = FALSE],
      [PlainPage EXCEPT !.titled = FALSE],
      [PlainPage EXCEPT !.date = DateNoContent] }
    \cup
    \* pages without a body container
    { [PlainPage EXCEPT !.title = t, !.meta = m] :
          t \in {TitleA, TitleB}, m \in {Nil, ImgB(TRUE)} }
    \cup
    \* bodies with one hyperlink
    { [PlainPage EXCEPT !.body = [imgs |-> <<>>, links |-> <<a>>]] :
          a \in BodyLinks }
    \cup
    \* bodies with images
    { [PlainPage EXCEPT !.date = d, !.meta = m, !.localOk = l,
                        !.body = [imgs |-> i, links |-> <<>>]] :
          d \in {DateDmy, DateText}, m \in {Nil, ImgB(TRUE)}, l \in BOOLEAN,
          i \in {<<>>, <<ImgA(TRUE)>>, <<ImgA(FALSE)>>} }

InitArticle ==
    /\ start = 0
    /\ max_pages = None
    /\ max_articles = None
    /\ end_article = None
    /\ records = <<>>
    /\ seen_links = {}
    /\ page_url = start
    /\ pages_processed = 1
    /\ last_offset = start
    /\ article_count = 0
    /\ links = <<>>
    /\ idx = 1
    /\ next_url = None
    /\ pc = "links"
    /\ ALL_ARTICLES_MAP = EmptyMap
    /\ files = {}
    /\ out_file = Nil
    /\ writes = 0
    /\ exit = Nil
    /\ list_gets = 1
    /\ article_gets = 0
    /\ list_failed = FALSE
    /\ fetched = {start}
    /\ encountered = NoEncounter
    /\ call = Nil
    /\ run = 1

\* The body of the for loop for a link that was not seen before.
ParseLink ==
    /\ pc = "links"
    /\ \E link \in ArticleUrls \ seen_links, page \in ArticlePages :
          \E res \in {parse_article(link, page, ALL_ARTICLES_MAP, files)} :
              /\ seen_links' = seen_links \cup {link}
              /\ article_count' = article_count + 1
              /\ article_gets' = article_gets + 1
              /\ call' = [url |-> link, page |-> page, map |-> ALL_ARTICLES_MAP,
                          files |-> files, res |-> res]
              /\ ALL_ARTICLES_MAP' = res.map
              /\ files' = res.files
              /\ IF res.outcome = "ok"
                 THEN records' = AddRecord(records, res.data) /\ UNCHANGED <<pc, exit>>
                 ELSE IF ExceptException(res.outcome)
                 THEN UNCHANGED <<records, pc, exit>>
                 ELSE /\ pc' = "aborted"
                      /\ exit' = [status |-> 1, cause |-> "article"]
                      /\ UNCHANGED records
    /\ UNCHANGED <<args, page_url, pages_processed, last_offset, links, idx,
                   next_url, out_file, writes, list_gets, run,
                   list_failed, fetched, encountered>>

\* The program is started again: the process state is new, the files stay.
NewRun ==
    /\ run < MaxRuns
    /\ run' = run + 1
    /\ records' = <<>>
    /\ seen_links' = {}
    /\ article_count' = 0
    /\ article_gets' = 0
    /\ ALL_ARTICLES_MAP' = EmptyMap
    /\ pc' = "links"
    /\ exit' = Nil
    /\ call' = Nil
    /\ UNCHANGED <<args, page_url, pages_processed, last_offset, links, idx,
                   next_url, files, out_file, writes, list_gets,
                   list_failed, fetched, encountered>>

NextArticle == ParseLink \/ NewRun

SpecArticle == InitArticle /\ [][NextArticle]_vars

----------------------------------------------------------------------------
(* choose_category *)

\* The texts are sequences of characters, as for slugify. The Cyrillic
\* lower-case letters of the model's alphabet:
CyrLower ==
    {"cyr_a", "cyr_be", "cyr_ve", "cyr_ghe", "cyr_ghe_upturn", "cyr_de",
     "cyr_ie", "cyr_ukr_ie", "cyr_io", "cyr_zhe", "cyr_ze", "cyr_i",
     "cyr_ukr_i", "cyr_yi", "cyr_short_i", "cyr_ka", "cyr_el", "cyr_em",
     "cyr_en", "cyr_o", "cyr_pe", "cyr_er", "cyr_es", "cyr_te", "cyr_u",
     "cyr_ef", "cyr_ha", "cyr_tse", "cyr_che", "cyr_sha", "cyr_shcha",
     "cyr_soft", "cyr_yeru", "cyr_hard", "cyr_e", "cyr_yu", "cyr_ya"}

CATEGORY_LIST ==
    << "achievements", "announcements", "greetings", "results", "decisions",
       "events", "partnerships", "federationNews", "competitions",
       "interviews", "education" >>

\* CATEGORY_RULES in the order of the dictionary; a keyword is the sequence
\* of its characters.
CATEGORY_RULES ==
    <<
      [category |-> "greetings", priority |-> 1, weight |-> 10,
       title_keywords |->
          << <<"cyr_ve", "cyr_ukr_i", "cyr_te", "cyr_a", "cyr_ukr_ie", "cyr_em">>,
             <<"cyr_ve", "cyr_ukr_i", "cyr_te", "cyr_a", "cyr_ukr_ie">>,
             <<"cyr_pe", "cyr_o", "cyr_ze", "cyr_de", "cyr_er", "cyr_a", "cyr_ve", "cyr_el", "cyr_ya">>,
             <<"cyr_pe", "cyr_o", "cyr_ze", "cyr_de", "cyr_er", "cyr_a", "cyr_ve", "cyr_i", "cyr_el">>,
             <<"cyr_ze", " ", "cyr_de", "cyr_en", "cyr_ie", "cyr_em", " ", "cyr_en", "cyr_a", "cyr_er", "cyr_o", "cyr_de", "cyr_zhe", "cyr_ie", "cyr_en", "cyr_en", "cyr_ya">>,
             <<"cyr_ze", " ", "cyr_yu", "cyr_ve", "cyr_ukr_i", "cyr_el", "cyr_ie", "cyr_ukr_ie", "cyr_em">>,
             <<"cyr_de", "cyr_ie", "cyr_en", "cyr_soft", " ", "cyr_en", "cyr_a", "cyr_er", "cyr_o", "cyr_de", "cyr_zhe", "cyr_ie", "cyr_en">>,
             <<"cyr_yu", "cyr_ve", "cyr_ukr_i", "cyr_el", "cyr_ie", "cyr_short_i">>,
             <<"c", "o", "n", "g", "r", "a", "t", "u", "l", "a", "t">> >>,
       content_keywords |->
          << <<"cyr_ve", "cyr_ukr_i", "cyr_te", "cyr_a", "cyr_ukr_ie", "cyr_em">>,
             <<"cyr_pe", "cyr_o", "cyr_ze", "cyr_de", "cyr_er", "cyr_a", "cyr_ve", "cyr_el", "cyr_ya">>,
             <<"cyr_yu", "cyr_ve", "cyr_ukr_i", "cyr_el", "cyr_ie", "cyr_short_i">>,
             <<"cyr_de", "cyr_ie", "cyr_en", "cyr_soft", " ", "cyr_en", "cyr_a", "cyr_er", "cyr_o", "cyr_de", "cyr_zhe", "cyr_ie", "cyr_en">> >>],
      [category |-> "achievements", priority |-> 2, weight |-> 8,
       title_keywords |->
          << <<"cyr_ze", "cyr_o", "cyr_el", "cyr_o", "cyr_te", "cyr_o">>,
             <<"cyr_es", "cyr_er", "cyr_ukr_i", "cyr_be", "cyr_el", "cyr_o">>,
             <<"cyr_be", "cyr_er", "cyr_o", "cyr_en", "cyr_ze", "cyr_a">>,
             <<"cyr_em", "cyr_ie", "cyr_de", "cyr_a", "cyr_el">>,
             <<"cyr_che", "cyr_ie", "cyr_em", "cyr_pe", "cyr_ukr_i", "cyr_o", "cyr_en">>,
             <<"cyr_pe", "cyr_ie", "cyr_er", "cyr_ie", "cyr_em", "cyr_o", "cyr_zhe", "cyr_ie", "cyr_tse", "cyr_soft">>,
             <<"cyr_pe", "cyr_ie", "cyr_er", "cyr_ie", "cyr_em", "cyr_o", "cyr_ghe", "cyr_a">>,
             <<"cyr_en", "cyr_a", "cyr_ghe", "cyr_o", "cyr_er", "cyr_o", "cyr_de">>,
             <<"cyr_pe", "cyr_er", "cyr_i", "cyr_ze", "cyr_ie", "cyr_er">>,
             <<"w", "i", "n", "n", "i", "n", "g">>,
             <<"c", "h", "a", "m", "p", "i", "o", "n">>,
             <<"m", "e", "d", "a", "l">> >>,
       content_keywords |->
          << <<"cyr_ze", "cyr_o", "cyr_el", "cyr_o", "cyr_te">>,
             <<"cyr_es", "cyr_er", "cyr_ukr_i", "cyr_be", "cyr_en">>,
             <<"cyr_be", "cyr_er", "cyr_o", "cyr_en", "cyr_ze">>,
             <<"cyr_che", "cyr_ie", "cyr_em", "cyr_pe", "cyr_ukr_i", "cyr_o", "cyr_en">>,
             <<"cyr_pe", "cyr_ie", "cyr_er", "cyr_ie", "cyr_em", "cyr_o", "cyr_ghe">>,
             <<"cyr_en", "cyr_a", "cyr_ghe", "cyr_o", "cyr_er", "cyr_o", "cyr_de">>,
             <<"cyr_em", "cyr_ie", "cyr_de", "cyr_a", "cyr_el">>,
             <<"cyr_pe", "cyr_er", "cyr_i", "cyr_ze", "cyr_ie", "cyr_er">>,
             <<"cyr_pe", "cyr_ie", "cyr_er", "cyr_sha", "cyr_ie", " ", "cyr_em", "cyr_ukr_i", "cyr_es", "cyr_tse", "cyr_ie">>,
             <<"cyr_de", "cyr_er", "cyr_u", "cyr_ghe", "cyr_ie", " ", "cyr_em", "cyr_ukr_i", "cyr_es", "cyr_tse", "cyr_ie">>,
             <<"cyr_te", "cyr_er", "cyr_ie", "cyr_te", "cyr_ukr_ie", " ", "cyr_em", "cyr_ukr_i", "cyr_es", "cyr_tse", "cyr_ie">>,
             <<"v", "i", "c", "t", "o", "r", "y">>,
             <<"a", "c", "h", "i", "e", "v", "e", "m", "e", "n", "t">> >>],
      [category |-> "results", priority |-> 3, weight |-> 7,
       title_keywords |->
          << <<"cyr_pe", "cyr_ukr_i", "cyr_de", "cyr_es", "cyr_u", "cyr_em", "cyr_ka", "cyr_i">>,
             <<"cyr_er", "cyr_ie", "cyr_ze", "cyr_u", "cyr_el", "cyr_soft", "cyr_te", "cyr_a", "cyr_te">>,
             <<"cyr_ef", "cyr_ukr_i", "cyr_en", "cyr_a", "cyr_el">>,
             <<"cyr_te", "cyr_u", "cyr_er", "cyr_en", "cyr_ukr_i", "cyr_er", "cyr_en", "cyr_a", " ", "cyr_te", "cyr_a", "cyr_be", "cyr_el", "cyr_i", "cyr_tse", "cyr_ya">>,
             <<"cyr_te", "cyr_a", "cyr_be", "cyr_el", "cyr_i", "cyr_tse", "cyr_ya">>,
             <<"r", "e", "s", "u", "l", "t", "s">>, <<"f", "i", "n", "a", "l">> >>,
       content_keywords |->
          << <<"cyr_pe", "cyr_ukr_i", "cyr_de", "cyr_es", "cyr_u", "cyr_em", "cyr_ka">>,
             <<"cyr_er", "cyr_ie", "cyr_ze", "cyr_u", "cyr_el", "cyr_soft", "cyr_te", "cyr_a", "cyr_te">>,
             <<"cyr_ef", "cyr_ukr_i", "cyr_en", "cyr_a", "cyr_el">>,
             <<"cyr_te", "cyr_u", "cyr_er", "cyr_en", "cyr_ukr_i", "cyr_er", "cyr_en">>,
             <<"cyr_te", "cyr_a", "cyr_be", "cyr_el", "cyr_i", "cyr_tse">>,
             <<"cyr_pe", "cyr_ie", "cyr_er", "cyr_sha", "cyr_ie", " ", "cyr_em", "cyr_ukr_i", "cyr_es", "cyr_tse", "cyr_ie">>,
             <<"cyr_de", "cyr_er", "cyr_u", "cyr_ghe", "cyr_ie", " ", "cyr_em", "cyr_ukr_i", "cyr_es", "cyr_tse", "cyr_ie">>,
             <<"cyr_te", "cyr_er", "cyr_ie", "cyr_te", "cyr_ukr_ie", " ", "cyr_em", "cyr_ukr_i", "cyr_es", "cyr_tse", "cyr_ie">> >>],
      [category |-> "competitions", priority |-> 4, weight |-> 6,
       title_keywords |->
          << <<"cyr_che", "cyr_ie", "cyr_em", "cyr_pe", "cyr_ukr_i", "cyr_o", "cyr_en", "cyr_a", "cyr_te">>,
             <<"g", "r", "a", "n", "d", " ", "p", "r", "i", "x">>,
             <<"g", "r", "a", "n", "d", " ", "s", "l", "a", "m">>,
             <<"cyr_ka", "cyr_u", "cyr_be", "cyr_o", "cyr_ka">>,
             <<"o", "p", "e", "n">>, <<"m", "a", "s", "t", "e", "r", "s">>,
             <<"cyr_pe", "cyr_ie", "cyr_er", "cyr_sha", "cyr_ukr_i", "cyr_es", "cyr_te", "cyr_soft">>,
             <<"cyr_ze", "cyr_em", "cyr_a", "cyr_ghe", "cyr_a", "cyr_en", "cyr_en", "cyr_ya">>,
             <<"cyr_te", "cyr_u", "cyr_er", "cyr_en", "cyr_ukr_i", "cyr_er">>,
             <<"c", "h", "a", "m", "p", "i", "o", "n", "s", "h", "i", "p">> >>,
       content_keywords |->
          << <<"cyr_che", "cyr_ie", "cyr_em", "cyr_pe", "cyr_ukr_i", "cyr_o", "cyr_en", "cyr_a", "cyr_te">>,
             <<"g", "r", "a", "n", "d">>, <<"s", "l", "a", "m">>,
             <<"p", "r", "i", "x">>,
             <<"cyr_ka", "cyr_u", "cyr_be", "cyr_o", "cyr_ka">>,
             <<"o", "p", "e", "n">>, <<"m", "a", "s", "t", "e", "r", "s">>,
             <<"cyr_pe", "cyr_ie", "cyr_er", "cyr_sha", "cyr_ukr_i", "cyr_es", "cyr_te", "cyr_soft">>,
             <<"cyr_ze", "cyr_em", "cyr_a", "cyr_ghe", "cyr_a", "cyr_en", "cyr_en", "cyr_ya">>,
             <<"cyr_te", "cyr_u", "cyr_er", "cyr_en", "cyr_ukr_i", "cyr_er">>,
             <<"cyr_be", "cyr_o", "cyr_er", "cyr_tse", "cyr_ukr_i", "cyr_ve">> >>],
      [category |-> "announcements", priority |-> 5, weight |-> 7,
       title_keywords |->
          << <<"cyr_u", "cyr_ve", "cyr_a", "cyr_ghe", "cyr_a">>,
             <<"cyr_a", "cyr_en", "cyr_o", "cyr_en", "cyr_es">>,
             <<"cyr_er", "cyr_ie", "cyr_ukr_ie", "cyr_es", "cyr_te", "cyr_er", "cyr_a", "cyr_tse", "cyr_ukr_i", "cyr_ya">>,
             <<"cyr_ze", "cyr_a", "cyr_pe", "cyr_er", "cyr_o", "cyr_sha", "cyr_u", "cyr_ukr_ie", "cyr_em">>,
             <<"cyr_ze", "cyr_a", "cyr_pe", "cyr_er", "cyr_o", "cyr_sha", "cyr_ie", "cyr_en", "cyr_en">>,
             <<"cyr_o", "cyr_ghe", "cyr_o", "cyr_el", "cyr_o", "cyr_sha", "cyr_ie", "cyr_en", "cyr_en", "cyr_ya">>,
             <<"a", "n", "n", "o", "u", "n", "c", "e", "m", "e", "n", "t">>,
             <<"r", "e", "g", "i", "s", "t", "r", "a", "t", "i", "o", "n">> >>,
       content_keywords |->
          << <<"cyr_u", "cyr_ve", "cyr_a", "cyr_ghe", "cyr_a">>,
             <<"cyr_a", "cyr_en", "cyr_o", "cyr_en", "cyr_es">>,
             <<"cyr_er", "cyr_ie", "cyr_ukr_ie", "cyr_es", "cyr_te", "cyr_er", "cyr_a", "cyr_tse">>,
             <<"cyr_ze", "cyr_a", "cyr_pe", "cyr_er", "cyr_o", "cyr_sha">>,
             <<"cyr_o", "cyr_ghe", "cyr_o", "cyr_el", "cyr_o", "cyr_sha">>,
             <<"cyr_ze", "cyr_a", "cyr_ya", "cyr_ve">>,
             <<"cyr_pe", "cyr_er", "cyr_i", "cyr_short_i", "cyr_em">>,
             <<"cyr_ze", "cyr_a", "cyr_er", "cyr_ie", "cyr_ukr_ie", "cyr_es", "cyr_te", "cyr_er", "cyr_u", "cyr_ve", "cyr_a">> >>],
      [category |-> "decisions", priority |-> 6, weight |-> 6,
       title_keywords |->
          << <<"cyr_er", "cyr_ukr_i", "cyr_sha", "cyr_ie", "cyr_en", "cyr_en", "cyr_ya">>,
             <<"cyr_pe", "cyr_o", "cyr_es", "cyr_te", "cyr_a", "cyr_en", "cyr_o", "cyr_ve", "cyr_a">>,
             <<"cyr_er", "cyr_ie", "cyr_ghe", "cyr_el", "cyr_a", "cyr_em", "cyr_ie", "cyr_en", "cyr_te">>,
             <<"cyr_pe", "cyr_er", "cyr_a", "cyr_ve", "cyr_i", "cyr_el", "cyr_a">>,
             <<"cyr_pe", "cyr_er", "cyr_o", "cyr_te", "cyr_o", "cyr_ka", "cyr_o", "cyr_el">>,
             <<"cyr_pe", "cyr_o", "cyr_el", "cyr_o", "cyr_zhe", "cyr_ie", "cyr_en", "cyr_en", "cyr_ya">>,
             <<"d", "e", "c", "i", "s", "i", "o", "n">>,
             <<"r", "e", "g", "u", "l", "a", "t", "i", "o", "n">> >>,
       content_keywords |->
          << <<"cyr_er", "cyr_ukr_i", "cyr_sha", "cyr_ie", "cyr_en", "cyr_en", "cyr_ya">>,
             <<"cyr_pe", "cyr_o", "cyr_es", "cyr_te", "cyr_a", "cyr_en", "cyr_o", "cyr_ve">>,
             <<"cyr_er", "cyr_ie", "cyr_ghe", "cyr_el", "cyr_a", "cyr_em", "cyr_ie", "cyr_en", "cyr_te">>,
             <<"cyr_pe", "cyr_er", "cyr_a", "cyr_ve", "cyr_i", "cyr_el">>,
             <<"cyr_pe", "cyr_er", "cyr_o", "cyr_te", "cyr_o", "cyr_ka", "cyr_o", "cyr_el">>,
             <<"cyr_pe", "cyr_o", "cyr_el", "cyr_o", "cyr_zhe", "cyr_ie", "cyr_en", "cyr_en", "cyr_ya">>,
             <<"cyr_ze", "cyr_a", "cyr_te", "cyr_ve", "cyr_ie", "cyr_er", "cyr_de", "cyr_zhe">> >>],
      [category |-> "federationNews", priority |-> 7, weight |-> 5,
       title_keywords |->
          << <<"cyr_ef", "cyr_ie", "cyr_de", "cyr_ie", "cyr_er", "cyr_a", "cyr_tse", "cyr_ukr_i", "cyr_ya">>,
             <<"cyr_ef", "cyr_de", "cyr_u">>,
             <<"cyr_pe", "cyr_er", "cyr_ie", "cyr_ze", "cyr_i", "cyr_de", "cyr_ie", "cyr_en", "cyr_te">>,
             <<"cyr_ve", "cyr_i", "cyr_ka", "cyr_o", "cyr_en", "cyr_ka", "cyr_o", "cyr_em">>,
             <<"cyr_ka", "cyr_o", "cyr_em", "cyr_ukr_i", "cyr_te", "cyr_ie", "cyr_te">>,
             <<"cyr_ze", "cyr_a", "cyr_es", "cyr_ukr_i", "cyr_de", "cyr_a", "cyr_en", "cyr_en", "cyr_ya">>,
             <<"f", "e", "d", "e", "r", "a", "t", "i", "o", "n">>,
             <<"p", "r", "e", "s", "i", "d", "e", "n", "t">> >>,
       content_keywords |->
          << <<"cyr_ef", "cyr_ie", "cyr_de", "cyr_ie", "cyr_er", "cyr_a", "cyr_tse", "cyr_ukr_i">>,
             <<"cyr_ef", "cyr_de", "cyr_u">>,
             <<"cyr_pe", "cyr_er", "cyr_ie", "cyr_ze", "cyr_i", "cyr_de", "cyr_ie", "cyr_en", "cyr_te">>,
             <<"cyr_ve", "cyr_i", "cyr_ka", "cyr_o", "cyr_en", "cyr_ka", "cyr_o", "cyr_em">>,
             <<"cyr_ka", "cyr_o", "cyr_em", "cyr_ukr_i", "cyr_te", "cyr_ie", "cyr_te">>,
             <<"cyr_ze", "cyr_a", "cyr_es", "cyr_ukr_i", "cyr_de", "cyr_a", "cyr_en", "cyr_en", "cyr_ya">>,
             <<"cyr_ze", "cyr_be", "cyr_o", "cyr_er", "cyr_i">> >>],
      [category |-> "interviews", priority |-> 8, weight |-> 8,
       title_keywords |->
          << <<"cyr_ukr_i", "cyr_en", "cyr_te", "cyr_ie", "cyr_er", "cyr_ve", "'", "cyr_yu">>,
             <<"cyr_ukr_i", "cyr_en", "cyr_te", "cyr_ie", "cyr_er", "cyr_ve", "cyr_soft", "cyr_yu">>,
             <<"cyr_er", "cyr_o", "cyr_ze", "cyr_em", "cyr_o", "cyr_ve", "cyr_a">>,
             <<"cyr_be", "cyr_ie", "cyr_es", "cyr_ukr_i", "cyr_de", "cyr_a">>,
             <<"cyr_ghe", "cyr_o", "cyr_ve", "cyr_o", "cyr_er", "cyr_i", "cyr_te", "cyr_soft">>,
             <<"i", "n", "t", "e", "r", "v", "i", "e", "w">>,
             <<"c", "o", "n", "v", "e", "r", "s", "a", "t", "i", "o", "n">> >>,
       content_keywords |->
          << <<"cyr_ukr_i", "cyr_en", "cyr_te", "cyr_ie", "cyr_er", "cyr_ve">>,
             <<"cyr_er", "cyr_o", "cyr_ze", "cyr_em", "cyr_o", "cyr_ve">>,
             <<"cyr_be", "cyr_ie", "cyr_es", "cyr_ukr_i", "cyr_de">>,
             <<"cyr_ghe", "cyr_o", "cyr_ve", "cyr_o", "cyr_er">>,
             <<"cyr_ze", "cyr_a", "cyr_pe", "cyr_i", "cyr_te", "cyr_a", "cyr_en", "cyr_en", "cyr_ya">>,
             <<"cyr_ve", "cyr_ukr_i", "cyr_de", "cyr_pe", "cyr_o", "cyr_ve", "cyr_ukr_i", "cyr_de">> >>],
      [category |-> "partnerships", priority |-> 9, weight |-> 6,
       title_keywords |->
          << <<"cyr_pe", "cyr_a", "cyr_er", "cyr_te", "cyr_en", "cyr_ie", "cyr_er">>,
             <<"cyr_es", "cyr_pe", "cyr_o", "cyr_en", "cyr_es", "cyr_o", "cyr_er">>,
             <<"cyr_es", "cyr_pe", "cyr_ukr_i", "cyr_ve", "cyr_pe", "cyr_er", "cyr_a", "cyr_tse", "cyr_ya">>,
             <<"cyr_pe", "cyr_ukr_i", "cyr_de", "cyr_te", "cyr_er", "cyr_i", "cyr_em", "cyr_ka", "cyr_a">>,
             <<"c", "o", "o", "p", "e", "r", "a", "t", "i", "o", "n">>,
             <<"p", "a", "r", "t", "n", "e", "r">>,
             <<"s", "p", "o", "n", "s", "o", "r">> >>,
       content_keywords |->
          << <<"cyr_pe", "cyr_a", "cyr_er", "cyr_te", "cyr_en", "cyr_ie", "cyr_er">>,
             <<"cyr_es", "cyr_pe", "cyr_o", "cyr_en", "cyr_es", "cyr_o", "cyr_er">>,
             <<"cyr_es", "cyr_pe", "cyr_ukr_i", "cyr_ve", "cyr_pe", "cyr_er", "cyr_a", "cyr_tse">>,
             <<"cyr_pe", "cyr_ukr_i", "cyr_de", "cyr_te", "cyr_er", "cyr_i", "cyr_em", "cyr_ka">>,
             <<"c", "o", "o", "p", "e", "r", "a", "t", "i", "o", "n">> >>],
      [category |-> "education", priority |-> 10, weight |-> 5,
       title_keywords |->
          << <<"cyr_es", "cyr_ie", "cyr_em", "cyr_ukr_i", "cyr_en", "cyr_a", "cyr_er">>,
             <<"cyr_ka", "cyr_u", "cyr_er", "cyr_es">>,
             <<"cyr_en", "cyr_a", "cyr_ve", "cyr_che", "cyr_a", "cyr_en", "cyr_en", "cyr_ya">>,
             <<"cyr_o", "cyr_es", "cyr_ve", "cyr_ukr_i", "cyr_te", "cyr_a">>,
             <<"cyr_a", "cyr_ka", "cyr_a", "cyr_de", "cyr_ie", "cyr_em", "cyr_ukr_i", "cyr_ya">>,
             <<"cyr_te", "cyr_er", "cyr_ie", "cyr_en", "cyr_ie", "cyr_er">>,
             <<"c", "o", "a", "c", "h">>,
             <<"e", "d", "u", "c", "a", "t", "i", "o", "n">> >>,
       content_keywords |->
          << <<"cyr_es", "cyr_ie", "cyr_em", "cyr_ukr_i", "cyr_en", "cyr_a", "cyr_er">>,
             <<"cyr_ka", "cyr_u", "cyr_er", "cyr_es">>,
             <<"cyr_en", "cyr_a", "cyr_ve", "cyr_che", "cyr_a", "cyr_en">>,
             <<"cyr_o", "cyr_es", "cyr_ve", "cyr_ukr_i", "cyr_te">>,
             <<"cyr_a", "cyr_ka", "cyr_a", "cyr_de", "cyr_ie", "cyr_em">>,
             <<"cyr_te", "cyr_er", "cyr_ie", "cyr_en", "cyr_ie", "cyr_er">>,
             <<"cyr_pe", "cyr_ukr_i", "cyr_de", "cyr_ghe", "cyr_o", "cyr_te", "cyr_o", "cyr_ve", "cyr_ka">> >>],
      [category |-> "events", priority |-> 11, weight |-> 3,
       title_keywords |->
          << <<"cyr_pe", "cyr_o", "cyr_de", "cyr_ukr_i", "cyr_ya">>,
             <<"cyr_ze", "cyr_a", "cyr_ha", "cyr_ukr_i", "cyr_de">>,
             <<"cyr_ze", "cyr_ukr_i", "cyr_be", "cyr_er", "cyr_a", "cyr_en", "cyr_en", "cyr_ya">>,
             <<"e", "v", "e", "n", "t">> >>,
       content_keywords |->
          << <<"cyr_pe", "cyr_o", "cyr_de", "cyr_ukr_i">>,
             <<"cyr_ze", "cyr_a", "cyr_ha", "cyr_ukr_i", "cyr_de">>,
             <<"cyr_ze", "cyr_ukr_i", "cyr_be", "cyr_er", "cyr_a", "cyr_en">>,
             <<"e", "v", "e", "n", "t">> >>]
    >>

\* "kw in text" for strings: kw occurs as a substring of text
Contains(kw, text) ==
    \E i \in 1 .. (Len(text) - Len(kw) + 1) :
        SubSeq(text, i, i + Len(kw) - 1) = kw

\* sum(1 for kw in kws if kw in text): the entries of the list are counted
CountMatches(kws, text) ==
    Cardinality({i \in DOMAIN kws : Contains(kws[i], text)})

RawScoreTitleOnce(rules, title_lower, text_lower) ==
    CountMatches(rules.title_keywords, title_lower) * rules.weight
    + CountMatches(rules.content_keywords, text_lower) * rules.weight

\* score of one category: a match in the title counts twice
RawScore(rules, title_lower, text_lower) ==
    CountMatches(rules.title_keywords, title_lower) * rules.weight * 2
    + CountMatches(rules.content_keywords, text_lower) * rules.weight

AdjustedScoreReversed(rules, score) == 10 * score + rules.priority

\* adjusted_score = score - priority * 0.1, in tenths. The scores are whole
\* numbers and the priorities 1..11: the float comparison of two adjusted
\* scores orders them as their exact values do, ties included.
AdjustedScore(rules, score) == 10 * score - rules.priority

DefaultCategoryMisspelt == "event"

\* the label returned when no category has a positive score
DefaultCategory == "events"

\* max(scores.items(), key=lambda x: x[1])[0]: the first entry, in the
\* order of the dictionary, among those of maximal value
MaxItem(scores) ==
    CHOOSE i \in DOMAIN scores :
        \A j \in DOMAIN scores :
            scores[j] < scores[i] \/ (scores[j] = scores[i] /\ i <= j)

choose_category(title, text) ==
    LET title_lower == LowerAll(title)
        text_lower == LowerAll(text)
        raw == [i \in DOMAIN CATEGORY_RULES |->
                   RawScore(CATEGORY_RULES[i], title_lower, text_lower)]
        scores == [i \in {j \in DOMAIN CATEGORY_RULES : raw[j] > 0} |->
                      AdjustedScore(CATEGORY_RULES[i], raw[i])]
    IN  IF DOMAIN scores # {}
        THEN CATEGORY_RULES[MaxItem(scores)].category
        ELSE DefaultCategory

----------------------------------------------------------------------------
(* extract_tags *)

STOPWORDS ==
    { <<"cyr_te", "cyr_a">>, <<"cyr_ukr_i">>, <<"cyr_short_i">>,
      <<"cyr_ve">>, <<"cyr_u">>, <<"cyr_ze">>, <<"cyr_ze", "cyr_ukr_i">>,
      <<"cyr_de", "cyr_o">>, <<"cyr_en", "cyr_a">>,
      <<"cyr_pe", "cyr_er", "cyr_o">>, <<"cyr_ze", "cyr_a">>,
      <<"cyr_ya", "cyr_ka">>, <<"cyr_shcha", "cyr_o">>,
      <<"cyr_tse", "cyr_ie">>, <<"cyr_a", "cyr_el", "cyr_ie">>,
      <<"t", "h", "e">>, <<"a", "n", "d">>, <<"f", "o", "r">>,
      <<"w", "i", "t", "h">>, <<"f", "r", "o", "m">>, <<"t", "h", "i", "s">>,
      <<"t", "h", "a", "t">>, <<"cyr_a">>, <<"cyr_pe", "cyr_o">>,
      <<"cyr_ve", "cyr_ukr_i", "cyr_de">>, <<"o">>,
      <<"cyr_a", "cyr_be", "cyr_o">>,
      <<"cyr_ya", "cyr_ka", "cyr_i", "cyr_short_i">>,
      <<"cyr_ya", "cyr_ka", "cyr_a">>, <<"cyr_ya", "cyr_ka", "cyr_ie">>,
      <<"cyr_be", "cyr_u", "cyr_de", "cyr_ie">>,
      <<"cyr_be", "cyr_u", "cyr_el", "cyr_o">>,
      <<"cyr_es", "cyr_te", "cyr_a", "cyr_ve">>,
      <<"cyr_es", "cyr_te", "cyr_a", "cyr_el", "cyr_a">>,
      <<"cyr_er", "cyr_o", "cyr_ka", "cyr_u">>,
      <<"cyr_er", "cyr_o", "cyr_tse", "cyr_ukr_i">> }

\* the characters the class [\w'] of the tokeniser matches: letters,
\* digits, the underscore and the apostrophe
IsWordChar(c) ==
    c \in LatinLower \cup Digits \cup CyrLower
          \cup {"A", "Z", "CYR_SHCHA", "CYR_SHORT_I", "CYR_YI", "_", "'"}

RECURSIVE FindAllWords(_, _)
\* re.findall(r"[\w']+", s): the maximal runs of word characters, cur being
\* the run that is open
FindAllWords(s, cur) ==
    IF s = <<>> THEN (IF cur = <<>> THEN <<>> ELSE <<cur>>)
    ELSE IF IsWordChar(Head(s))
    THEN FindAllWords(Tail(s), Append(cur, Head(s)))
    ELSE (IF cur = <<>> THEN <<>> ELSE <<cur>>) \o FindAllWords(Tail(s), <<>>)

\* "if len(tags) >= limit: break", the last statement of the loop body
LimitTest(tags, limit) == Len(tags) >= limit

RECURSIVE TagLoop(_, _, _)
\* the for loop of extract_tags over the words that are left
TagLoop(words, tags, limit) ==
    IF words = <<>> THEN tags
    ELSE LET wl == LowerAll(Head(words))
         IN  IF Len(wl) < 4 \/ wl \in STOPWORDS
             THEN TagLoop(Tail(words), tags, limit)
             ELSE LET appended ==
                          IF \E i \in DOMAIN tags : tags[i] = wl THEN tags
                          ELSE Append(tags, wl)
                  IN  IF LimitTest(appended, limit) THEN appended
                      ELSE TagLoop(Tail(words), appended, limit)

extract_tags(title, text, limit) ==
    TagLoop(FindAllWords(title \o <<" ">> \o text, <<>>), <<>>, limit)

----------------------------------------------------------------------------
(* make_excerpt *)

\* the ellipsis character U+2026
Ellipsis == "ellipsis"

\* text[:length], for a negative length too
SlicePrefix(text, length) ==
    IF length >= Len(text) THEN text
    ELSE IF length >= 0 THEN SubSeq(text, 1, length)
    ELSE IF Len(text) + length > 0 THEN SubSeq(text, 1, Len(text) + length)
    ELSE <<>>

\* s.rsplit(" ", 1)[0]: s up to its last space, all of s without one
RSplitHead(s) ==
    IF \E i \in DOMAIN s : s[i] = " "
    THEN LET last == CHOOSE i \in DOMAIN s :
                         s[i] = " " /\ \A j \in DOMAIN s : s[j] = " " => j <= i
         IN  SubSeq(s, 1, last - 1)
    ELSE s

make_excerpt(text, length) ==
    IF Len(text) <= length THEN text
    ELSE RSplitHead(SlicePrefix(text, length)) \o <<Ellipsis>>

----------------------------------------------------------------------------
(* The record of parse_article and the exporter export_articles_to_csv.py *)

\* The fields of the record of parse_article that are computed from the
\* title and the plain text of the body; date is the normalised date.
ArticleData(title, plain_text, date) ==
    [id |-> slugify(title),
     title |-> title,
     date |-> date,
     category |-> choose_category(title, plain_text),
     excerpt |-> make_excerpt(plain_text, 160),
     featured |-> FALSE,
     tags |-> extract_tags(title, plain_text, 5)]

\* dict.get(key, default)
Get(article, key, default) ==
    IF key \in DOMAIN article THEN article[key] ELSE default

RECURSIVE JoinWith(_, _)
\* sep.join(parts)
JoinWith(sep, parts) ==
    IF parts = <<>> THEN <<>>
    ELSE IF Len(parts) = 1 THEN parts[1]
    ELSE parts[1] \o <<sep>> \o JoinWith(sep, Tail(parts))

\* the flat row of an article that has the required fields
FlatRow(article, sep) ==
    [id |-> Get(article, "id", <<>>),
     title |-> Get(article, "title", <<>>),
     category |-> Get(article, "category", ""),
     publishedAt |-> Get(article, "date", <<>>),
     excerpt |-> Get(article, "excerpt", <<>>),
     featured |-> Get(article, "featured", FALSE),
     tags |-> IF Get(article, "tags", <<>>) # <<>>
              THEN JoinWith(sep, Get(article, "tags", <<>>))
              ELSE <<>>]

flatten_article_comma(article) ==
    IF ~({"id", "title", "date"} \subseteq DOMAIN article) THEN Nil
    ELSE FlatRow(article, ",")

\* _flatten_article: None for an article without id, title or date, else
\* the row, with the tags joined by ";"
_flatten_article(article) ==
    IF ~({"id", "title", "date"} \subseteq DOMAIN article) THEN Nil
    ELSE FlatRow(article, ";")

RECURSIVE load_articles(_)
\* load_articles on a JSON list: the rows of the items that are accepted
load_articles(data) ==
    IF data = <<>> THEN <<>>
    ELSE (IF _flatten_article(Head(data)) # Nil
          THEN <<_flatten_article(Head(data))>> ELSE <<>>)
         \o load_articles(Tail(data))

\* write_csv: no file for no article, else one row for each article
write_csv(articles) ==
    IF articles = <<>> THEN Nil ELSE [rows |-> articles]

----------------------------------------------------------------------------
(* The text functions on their own: one call of choose_category,           *)
(* extract_tags, make_excerpt, slugify or normalise_date on an argument    *)
(* drawn from the sets below, or one export of a record of the crawler.    *)

\* a text for choose_category and extract_tags has at most MaxWords words
MaxWords == 2
\* a title for slugify has at most MaxSlugLen characters
MaxSlugLen == 3
\* a text for make_excerpt has at most MaxExcerptLen characters
MaxExcerptLen == 5

RECURSIVE SeqsUpTo(_, _)
\* the sequences over S of length at most n
SeqsUpTo(S, n) ==
    IF n = 0 THEN {<<>>}
    ELSE LET shorter == SeqsUpTo(S, n - 1)
         IN  shorter \cup {Append(q, x) : q \in shorter, x \in S}

RECURSIVE JoinWords(_)
\* " ".join(ws)
JoinWords(ws) ==
    IF ws = <<>> THEN <<>>
    ELSE IF Len(ws) = 1 THEN ws[1]
    ELSE ws[1] \o <<" ">> \o JoinWords(Tail(ws))

\* The words of the titles and body texts: a word with an upper-case
\* letter, a stop word, the short keyword of federationNews, keywords of
\* events, of competitions (which contains one of achievements), of
\* results (title only, with an upper-case letter) and of announcements,
\* two tokens joined by a hyphen, the first with an apostrophe, and a
\* keyword of results that has the weight of the one of announcements.
Words ==
    { <<"Z", "a", "z", "a">>,
      <<"w", "i", "t", "h">>,
      CATEGORY_RULES[7].title_keywords[2],
      CATEGORY_RULES[11].title_keywords[4],
      CATEGORY_RULES[4].title_keywords[1],
      <<"f", "i", "n", "A", "l">>,
      CATEGORY_RULES[5].title_keywords[1],
      <<"i", "t", "'", "s", "-", "o", "k">>,
      CATEGORY_RULES[3].content_keywords[3] }

Titles == {<<>>} \cup Words

Texts == {JoinWords(ws) : ws \in SeqsUpTo(Words, MaxWords)}

\* limit of extract_tags: the default 5 that parse_article uses, and
\* limits that texts of MaxWords words reach
TagLimits == {0, 1, 2, 5}

\* plain_text = body.get_text(" ", strip=True): words and spaces, no space
\* at either end
ExcerptTexts ==
    {x \in SeqsUpTo({"a", " "}, MaxExcerptLen) :
        x = <<>> \/ (x[1] # " " /\ x[Len(x)] # " ")}

ExcerptLengths == 0 .. MaxExcerptLen

SlugChars == {"a", "Z", "1", "-", " ", "cyr_soft", "cyr_short_i", "CYR_YI"}

SlugTitles == SeqsUpTo(SlugChars, MaxSlugLen)

\* the day group of the date pattern: one or two decimal digits
DayTexts ==
    {<<DigitSeq[a]>> : a \in 1 .. 10}
    \cup {<<DigitSeq[a], DigitSeq[b]>> : a \in 1 .. 10, b \in 1 .. 10}

\* the word group: three keys of MONTH_MAP and a word that is none
MonthWords == {"lyutoho", "kvitnya", "hrudnya", "lyutyi"}

DateTexts ==
    {[shape |-> "dmy", day |-> d, month |-> m, year |-> y, padded |-> p] :
        d \in DayTexts, m \in MonthWords, y \in {"2024", "2025"},
        p \in BOOLEAN}
    \cup {[shape |-> "text", padded |-> p] : p \in BOOLEAN}
    \cup {[shape |-> "iso", year |-> "2024", month |-> "02", padded |-> p] :
             p \in BOOLEAN}

\* the words of the records that are exported: a word with an upper-case
\* letter, a stop word, and two words joined by a semicolon
ExportWords ==
    { <<"Z", "a", "z", "a">>,
      <<"w", "i", "t", "h">>,
      <<"j", "u", "d", "o", ";", "k", "a", "t", "a">> }

\* The JSON lists that are exported: one record of the crawler, or one
\* object written by hand that has no date.
ExportCalls ==
    {[fn |-> "load_articles", title |-> t, text |-> x, crawled |-> TRUE,
      data |-> <<ArticleData(t, x, normalise_date(DateDmy))>>] :
        t \in {<<>>} \cup ExportWords,
        x \in {JoinWords(ws) : ws \in SeqsUpTo(ExportWords, MaxWords)}}
    \cup {[fn |-> "load_articles", title |-> t, text |-> <<>>,
            crawled |-> FALSE, data |-> <<[id |-> slugify(t), title |-> t]>>] :
             t \in ExportWords}

TextCalls ==
    {[fn |-> "choose_category", title |-> t, text |-> x] :
        t \in Titles, x \in Texts}
    \cup {[fn |-> "extract_tags", title |-> t, text |-> x, limit |-> l] :
             t \in Titles, x \in Texts, l \in TagLimits}
    \cup {[fn |-> "make_excerpt", text |-> x, length |-> l] :
             x \in ExcerptTexts, l \in ExcerptLengths}
    \cup {[fn |-> "slugify", text |-> x] : x \in SlugTitles}
    \cup {[fn |-> "normalise_date", raw |-> r] : r \in DateTexts}
    \cup ExportCalls

\* the variables a text function does not touch
textframe == <<args, records, seen_links, page_url, pages_processed,
               last_offset, article_count, links, idx, next_url,
               ALL_ARTICLES_MAP, files, out_file, writes, exit, list_gets,
               article_gets, list_failed, fetched, encountered, run>>

\* call is the call that is made: the function and its arguments, and the
\* value it returned once pc is "returned".
InitText ==
    /\ call \in TextCalls
    /\ pc = "call"
    /\ start = 0
    /\ max_pages = None
    /\ max_articles = None
    /\ end_article = None
    /\ records = <<>>
    /\ seen_links = {}
    /\ page_url = start
    /\ pages_processed = 0
    /\ last_offset = start
    /\ article_count = 0
    /\ links = <<>>
    /\ idx = 1
    /\ next_url = None
    /\ ALL_ARTICLES_MAP = EmptyMap
    /\ files = {}
    /\ out_file = Nil
    /\ writes = 0
    /\ exit = Nil
    /\ list_gets = 0
    /\ article_gets = 0
    /\ list_failed = FALSE
    /\ fetched = {}
    /\ encountered = NoEncounter
    /\ run = 1

\* the call with its return value
Returned(c, value) ==
    [f \in DOMAIN c \cup {"res"} |-> IF f = "res" THEN value ELSE c[f]]

ChooseCategory ==
    /\ pc = "call" /\ call.fn = "choose_category"
    /\ call' = Returned(call, choose_category(call.title, call.text))
    /\ pc' = "returned"
    /\ UNCHANGED textframe

ExtractTags ==
    /\ pc = "call" /\ call.fn = "extract_tags"
    /\ call' = Returned(call, extract_tags(call.title, call.text, call.limit))
    /\ pc' = "returned"
    /\ UNCHANGED textframe

MakeExcerpt ==
    /\ pc = "call" /\ call.fn = "make_excerpt"
    /\ call' = Returned(call, make_excerpt(call.text, call.length))
    /\ pc' = "returned"
    /\ UNCHANGED textframe

Slugify ==
    /\ pc = "call" /\ call.fn = "slugify"
    /\ call' = Returned(call, slugify(call.text))
    /\ pc' = "returned"
    /\ UNCHANGED textframe

NormaliseDate ==
    /\ pc = "call" /\ call.fn = "normalise_date"
    /\ call' = Returned(call, normalise_date(call.raw))
    /\ pc' = "returned"
    /\ UNCHANGED textframe

\* main() of the exporter on a JSON file that holds call.data
ExportArticles ==
    /\ pc = "call" /\ call.fn = "load_articles"
    /\ call' = Returned(call, write_csv(load_articles(call.data)))
    /\ pc' = "returned"
    /\ UNCHANGED textframe

NextText ==
    \/ ChooseCategory \/ ExtractTags \/ MakeExcerpt \/ Slugify
    \/ NormaliseDate \/ ExportArticles

SpecText == InitText /\ [][NextText]_vars

----------------------------------------------------------------------------
(* Properties of the crawl (specification Spec) *)

\* The article URLs the fetched listing pages have offered so far: the
\* links of the earlier pages were all handled, those of the current page
\* are in links.
Offered == seen_links \cup {links[i] : i \in DOMAIN links}

\* C1: a failed extraction of one article, a failed HTTP fetch of the
\* article page included, is caught and the article is skipped: no run is
\* aborted because of an article.
C1_ArticleFailureSkipped ==
    ~(pc = "aborted" /\ exit.cause = "article")

\* C2 as stated: with max_articles = N the only limit, over a listing that
\* offers at least N distinct article URLs, a crawl that stops at the
\* limit has processed exactly N distinct article URLs.
C2_ExactlyNDistinct ==
    (/\ max_articles # None /\ end_article = None /\ max_pages = None
     /\ pc = "write" /\ article_count > max_articles
     /\ Cardinality(Offered) >= max_articles)
    => Cardinality(seen_links) = max_articles

\* C2 amended: with max_articles = N the crawl stops at the limit after
\* exactly N links have been handled, the skipped duplicates included, so
\* the number of distinct article URLs processed is at most N.
C2_StopsAfterNLinks ==
    max_articles # None =>
        /\ Cardinality(seen_links) <= max_articles
        /\ article_count <= max_articles + 1
        /\ (pc = "links" => article_count <= max_articles)

\* a crawl with max_articles = 2 stopped at the limit after a duplicate was
\* skipped: one distinct URL was processed
C2_Witness ==
    /\ max_articles = 2 /\ end_article = None /\ max_pages = None
    /\ pc = "write" /\ article_count = 3
    /\ Cardinality(seen_links) = 1
    /\ Cardinality(Offered) = 2

\* the smallest article limit that is set; None when none is set
ArticleLimit ==
    IF max_articles = None THEN end_article
    ELSE IF end_article = None THEN max_articles
    ELSE IF max_articles < end_article THEN max_articles ELSE end_article

C3_LimitStep ==
    (/\ pc = "links" /\ idx <= Len(links)
     /\ ArticleLimit # None /\ article_count >= ArticleLimit)
    => /\ pc' = "write"
       /\ records' = records
       /\ seen_links' = seen_links
       /\ article_gets' = article_gets

\* C3: the article limits are checked per link before the link is
\* processed: once the number of links handled has reached max_articles or
\* end_article, scrape returns with the records collected so far and the
\* current link is neither fetched nor added to the seen set; the number
\* of records never exceeds the smallest limit that is set.
C3_LimitBeforeProcessing ==
    /\ [](ArticleLimit # None => Len(records) <= ArticleLimit)
    /\ [][C3_LimitStep]_vars

\* scrape has returned at the limit 1 with one record, the second link of
\* the page was not fetched
C3_Witness ==
    /\ ArticleLimit = 1 /\ pc = "write" /\ article_count = 2
    /\ Len(records) = 1 /\ Len(links) = 2 /\ article_gets = 1
    /\ links[2] \notin seen_links

\* C4: no two records of the collected record sequence have the same url.
C4_NoDuplicateUrl ==
    \A i, j \in DOMAIN records : i # j => records[i].url # records[j].url

\* on the second listing page a link whose URL has a record already was
\* skipped
C4_Witness ==
    /\ pc = "links" /\ pages_processed = 2 /\ idx > 1
    /\ article_count > Cardinality(seen_links)
    /\ \E i \in DOMAIN records : records[i].url = links[idx - 1]
    /\ Len(records) = Cardinality(seen_links)

C5_EmptyPageStep ==
    (list_gets' = list_gets + 1 /\ ~list_failed' /\ links' = <<>>)
    => pc' = "write" /\ records' = records /\ exit' = Nil

C5_NoFetchAfterReturn ==
    pc \in {"write", "done", "aborted"}
    => list_gets' = list_gets /\ article_gets' = article_gets

\* C5: when a fetched listing page yields zero article links, scrape
\* returns without raising, with exactly the records collected before; no
\* listing page and no article is fetched after scrape has returned.
C5_EmptyPageEndsCrawl ==
    /\ [][C5_EmptyPageStep]_vars
    /\ [][C5_NoFetchAfterReturn]_vars

\* the second listing page had no links: the run ended with the record of
\* the first page written
C5_Witness ==
    /\ pc = "done" /\ links = <<>> /\ list_gets = 2 /\ Len(records) = 1
    /\ next_url # None /\ out_file = [rows |-> records]

\* C6: when max_pages is set, the number of listing pages fetched never
\* exceeds max_pages; with max_pages = 0 no page is fetched and the crawl
\* returns an empty record list with zero pages processed.
C6_MaxPages ==
    max_pages # None =>
        /\ list_gets <= max_pages
        /\ pages_processed <= max_pages
        /\ (max_pages = 0 => records = <<>> /\ pc # "links")

\* the crawl stopped after max_pages = 1 page although a next page exists
C6_Witness ==
    /\ max_pages = 1 /\ list_gets = 1 /\ pc = "write" /\ page_url # None
    /\ ArticleLimit = None /\ Len(records) = 1

----------------------------------------------------------------------------
(* Properties of the article extractor (specification SpecArticle) *)

\* the hyperlinks of the body of the last call that point to an article
\* whose numeric ID was not in ALL_ARTICLES_MAP when the call was made
ForwardLinks ==
    IF call = Nil \/ call.res.outcome # "ok" \/ call.page.body = Nil THEN {}
    ELSE {i \in DOMAIN call.page.body.links :
             /\ call.page.body.links[i].href.internal
             /\ call.page.body.links[i].href.id \notin DOMAIN call.map}

\* C8 as stated: every hyperlink of A's body to an article B whose numeric
\* ID is not in ALL_ARTICLES_MAP keeps its original href in A's html.
C8_ForwardLinkKept ==
    \A i \in ForwardLinks :
        call.res.data.html.links[i].href = call.page.body.links[i].href

\* C8 amended: such a hyperlink is never rewritten to a local /news/<slug>
\* path; it keeps its original href unless its visible text or its href
\* contains a protocol/regulation keyword, and then its href is the
\* canonical URL of the first matching keyword.
C8_ForwardLinkNotLocalised ==
    \A i \in ForwardLinks :
        LET a == call.page.body.links[i]
            k == FirstKeyword(a.text \cup a.href.kws)
            out == call.res.data.html.links[i]
        IN  /\ out.text = a.text
            /\ IF k = 0 THEN out.href = a.href
               ELSE out.href = [kind |-> "canonical", url |-> PROTOCOL_LINKS[k].url]

\* after another article was parsed, an article is parsed whose body links
\* to an article that is not in ALL_ARTICLES_MAP, with no keyword in the
\* link: the href is the original one
C8_Witness ==
    /\ call # Nil /\ call.map # EmptyMap
    /\ \E i \in ForwardLinks :
          /\ call.page.body.links[i].text = {}
          /\ call.page.body.links[i].href.kws = {}
          /\ records[Len(records)].html.links[i].href.kind = "source"
          /\ records[Len(records)].url = call.url

\* C9: once the article page has been fetched, parse_article never raises
\* and returns a record.
C9_NeverRaises ==
    (call # Nil /\ call.page.ok) => call.res.outcome = "ok"

\* C10: ensure_download_image issues a network download only when no file
\* exists at the destination path: a call of parse_article downloads no
\* image whose destination path existed when it was made (so a second run
\* against the same asset directory downloads none of them again), and the
\* local paths of the record are the same whatever files exist.
C10_DownloadOnlyIfMissing ==
    call # Nil =>
        /\ \A i \in DOMAIN call.res.net : call.res.net[i] \notin call.files
        /\ call.files \subseteq files
        /\ call.res.data =
               parse_article(call.url, call.page, call.map, {}).data

\* in the second run an article with an image is parsed whose destination
\* path exists from the first run: no download is issued
C10_Witness ==
    /\ run = 2 /\ call # Nil /\ call.res.outcome = "ok"
    /\ ALL_ARTICLES_MAP # EmptyMap
    /\ call.page.body # Nil /\ call.page.body.imgs # <<>>
    /\ call.res.data.html.imgs[1] \in call.files
    /\ call.res.data.image = call.res.data.html.imgs[1]
    /\ call.res.net = <<>>

----------------------------------------------------------------------------
(* Properties of the text functions (specification SpecText) *)

\* the labels of the taxonomy
Taxonomy == {CATEGORY_LIST[i] : i \in DOMAIN CATEGORY_LIST}

\* C11: for every title and body text choose_category returns a non-empty
\* label that is a member of CATEGORY_LIST; every key of the rule table
\* and the default label are members of CATEGORY_LIST.
C11_CategoryInTaxonomy ==
    /\ \A i \in DOMAIN CATEGORY_RULES : CATEGORY_RULES[i].category \in Taxonomy
    /\ DefaultCategory \in Taxonomy
    /\ (pc = "returned" /\ call.fn = "choose_category")
       => call.res # "" /\ call.res \in Taxonomy

\* a title and a body text in which no keyword occurs got the default label
C11_Witness ==
    /\ pc = "returned" /\ call.fn = "choose_category"
    /\ call.title # <<>> /\ call.text # <<>>
    /\ \A i \in DOMAIN CATEGORY_RULES :
          RawScore(CATEGORY_RULES[i], LowerAll(call.title),
                   LowerAll(call.text)) = 0
    /\ call.res = "events"

\* the upper-case letters of the model's alphabet
UpperChars == {"A", "Z", "CYR_SHCHA", "CYR_SHORT_I", "CYR_YI"}

\* the tokens of title and text in the order of the text, lower-cased
LoweredWords ==
    LET words == FindAllWords(call.title \o <<" ">> \o call.text, <<>>)
    IN  [i \in DOMAIN words |-> LowerAll(words[i])]

\* the position at which the token t is first seen in the words ws, 0
\* when it never is
FirstSeen(ws, t) ==
    IF \E i \in DOMAIN ws : ws[i] = t
    THEN CHOOSE i \in DOMAIN ws :
             ws[i] = t /\ \A j \in 1 .. (i - 1) : ws[j] # t
    ELSE 0

\* C12: the sequence extract_tags returns contains only lower-case
\* tokens of title and text, no stop word, no token shorter than 4
\* characters and no duplicate, and its entries are in first-seen order
\* over the title followed by the text.
C12_TagsWellFormed ==
    (pc = "returned" /\ call.fn = "extract_tags") =>
        \A seen \in {[i \in DOMAIN call.res |->
                         FirstSeen(LoweredWords, call.res[i])]} :
            /\ \A i \in DOMAIN call.res :
                  /\ \A k \in DOMAIN call.res[i] :
                        call.res[i][k] \notin UpperChars
                  /\ call.res[i] \notin STOPWORDS
                  /\ Len(call.res[i]) >= 4
                  /\ seen[i] > 0
            /\ \A i, j \in DOMAIN call.res :
                  i < j => call.res[i] # call.res[j] /\ seen[i] < seen[j]

\* the title is a word with an upper-case letter, the text a stop word and
\* a keyword: the tags are the lower-cased title word and the keyword
C12_Witness ==
    /\ pc = "returned" /\ call.fn = "extract_tags" /\ call.limit = 5
    /\ call.title = <<"Z", "a", "z", "a">>
    /\ Contains(<<"w", "i", "t", "h">>, call.text)
    /\ Len(call.res) = 2
    /\ call.res[1] = <<"z", "a", "z", "a">>
    /\ call.res[2] = CATEGORY_RULES[11].title_keywords[4]

\* C13: for every title, text and limit, limit = 0 included, the sequence
\* extract_tags returns never has more entries than the limit.
C13_AtMostLimit ==
    (pc = "returned" /\ call.fn = "extract_tags")
    => Len(call.res) <= call.limit

\* a word of text ends at position k: the character k belongs to a word
\* and a space follows it
WordEndsAt(text, k) ==
    /\ 1 <= k /\ k < Len(text)
    /\ text[k] # " " /\ text[k + 1] = " "

\* C14: make_excerpt returns text unchanged when len(text) <= maxLen;
\* otherwise, for a text in which a word ends at or before maxLen, it
\* returns a prefix of text followed by the ellipsis, where the prefix has
\* at most maxLen characters and ends before a space, and is the prefix of
\* maxLen characters when a word ends exactly at maxLen.
C14_ExcerptAtLastBoundary ==
    (pc = "returned" /\ call.fn = "make_excerpt") =>
        IF Len(call.text) <= call.length THEN call.res = call.text
        ELSE (\E e \in 1 .. call.length : WordEndsAt(call.text, e)) =>
                 \E k \in 0 .. call.length :
                    /\ call.res = SubSeq(call.text, 1, k) \o <<Ellipsis>>
                    /\ call.text[k + 1] = " "
                    /\ WordEndsAt(call.text, call.length) => k = call.length

\* a slug: groups of [a-z0-9] separated by single hyphens
WellFormedSlug(x) ==
    /\ x # <<>>
    /\ \A k \in DOMAIN x : x[k] \in LatinLower \cup Digits \cup {"-"}
    /\ x[1] # "-" /\ x[Len(x)] # "-"
    /\ \A k \in 1 .. (Len(x) - 1) : ~(x[k] = "-" /\ x[k + 1] = "-")

\* C15: for every title x, slugify(x) is a non-empty string of [a-z0-9]
\* groups separated by single hyphens with no leading or trailing hyphen,
\* or the fallback token 'untitled', and slugify(slugify(x)) = slugify(x).
C15_SlugifyIdempotent ==
    (pc = "returned" /\ call.fn = "slugify") =>
        /\ call.res = Untitled \/ WellFormedSlug(call.res)
        /\ slugify(call.res) = call.res

\* an upper-case letter, a space and a Cyrillic letter that the
\* normalisation splits into letter and combining mark: the mark becomes
\* a hyphen that is trimmed
C15_Witness ==
    /\ pc = "returned" /\ call.fn = "slugify"
    /\ call.text = <<"Z", " ", "CYR_YI">>
    /\ call.res = <<"z", "-", "i">>

\* the number of days of a month of the years the date texts name, 2024
\* being the leap year among them
DaysInMonth(month, year) ==
    CASE month \in {"04", "06", "09", "11"} -> 30
      [] month = "02" -> (IF year = "2024" THEN 29 ELSE 28)
      [] OTHER -> 31

\* C16: normalise_date returns either a well-formed ISO date YYYY-MM-DD,
\* zero-padded and naming a real calendar day, or the trimmed input text
\* unchanged.
C16_IsoDateOrTrimmedInput ==
    (pc = "returned" /\ call.fn = "normalise_date") =>
        IF call.res.shape = "isodate"
        THEN /\ call.raw.shape = "dmy"
             /\ call.res.year = call.raw.year
             /\ call.res.month = MONTH_MAP(call.raw.month)
             /\ Len(call.res.day) = 2
             /\ DayInt(call.res.day) = DayInt(call.raw.day)
             /\ 1 <= DayInt(call.res.day)
             /\ DayInt(call.res.day) <= DaysInMonth(call.res.month, call.res.year)
        ELSE call.res = [call.raw EXCEPT !.padded = FALSE]

----------------------------------------------------------------------------
(* Further properties of the crawl (specification Spec) *)

C17_VisitStep ==
    (list_gets' = list_gets + 1 /\ pc' # "aborted") =>
        /\ pages_processed' = list_gets'
        /\ _extract_start_offset(page_url) # None
           => last_offset' = _extract_start_offset(page_url)

C17_KeepStep ==
    list_gets' = list_gets =>
        last_offset' = last_offset /\ pages_processed' = pages_processed

\* C17: the last_offset scrape returns is the start offset of the last
\* listing page that was visited, also when that offset is 0 after a page
\* with a non-zero offset, and pages_processed is the number of listing
\* pages visited: each visit of a page whose URL has a start offset (the
\* page was fetched) sets last_offset to that offset and counts the page,
\* and nothing else changes last_offset.
C17_LastOffsetOfLastPage ==
    [][C17_VisitStep /\ C17_KeepStep]_vars

\* none of the stop conditions is met and a next-page link exists
C18_MayContinue ==
    /\ page_url # None
    /\ max_articles = None \/ article_count < max_articles
    /\ end_article = None \/ article_count < end_article
    /\ max_pages = None \/ pages_processed < max_pages

C18_Step ==
    (pc = "loop" /\ pages_processed > 0) =>
        IF C18_MayContinue
        THEN list_gets' = list_gets + 1
        ELSE pc' = "write" /\ list_gets' = list_gets

\* C18: after all article links of a listing page have been handled, the
\* crawler fetches a further listing page only if a next-page link exists
\* and none of the stop conditions is met (article count below
\* max_articles and end_article, pages visited below max_pages);
\* otherwise scrape returns without a fetch. Once the article limit has
\* been reached by the last link of a page, no further listing page is
\* fetched.
C18_NextPageOnlyBelowLimits ==
    [][C18_Step]_vars

----------------------------------------------------------------------------
(* Further properties of the article extractor (specification SpecArticle) *)

\* the records that were appended in this run before the last call of
\* parse_article was made
RecordsBefore ==
    IF call # Nil /\ call.res.outcome = "ok"
    THEN SubSeq(records, 1, Len(records) - 1)
    ELSE records

RecordIds(rs) == {NumericId(rs[i].url) : i \in DOMAIN rs}

----------------------------------------------------------------------------
(* Failed image downloads (specification SpecArticle) *)

\* the destination path of image i of the body of the last call
C21_Dest(i) ==
    DestPath(call.page.body.imgs[i],
             DateHints(normalise_date(call.page.date))[1],
             DateHints(normalise_date(call.page.date))[2])

\* image i of the body of the last call was requested from the network
\* and the request failed
C21_FailedDownload(i) ==
    /\ ~call.page.body.imgs[i].ok
    /\ C21_Dest(i) \notin call.files

\* the preview image of the last call is a successful download to the
\* destination path of image i
C21_PreviewStored(i) ==
    /\ find_preview_src(call.page) # Nil
    /\ find_preview_src(call.page).name = call.page.body.imgs[i].name
    /\ find_preview_src(call.page).ok

----------------------------------------------------------------------------
(* The scores of choose_category (specification SpecText) *)

\* the number of the keywords of a set that occur in a text
C22_Occurring(kws, text) ==
    Cardinality({kw \in {kws[k] : k \in DOMAIN kws} : Contains(kw, text)})

\* the raw scores of the categories for the call that was made
C22_Raw ==
    [i \in DOMAIN CATEGORY_RULES |->
        C22_Occurring(CATEGORY_RULES[i].title_keywords, LowerAll(call.title))
            * CATEGORY_RULES[i].weight * 2
        + C22_Occurring(CATEGORY_RULES[i].content_keywords, LowerAll(call.text))
            * CATEGORY_RULES[i].weight]

\* C22: choose_category returns a category of maximal adjusted score
\* raw - priority * 0.1 among the categories with raw > 0, where raw is
\* (title keywords occurring in the lowercased title) * weight * 2 +
\* (content keywords occurring in the lowercased body) * weight, and it
\* returns the default "events" when no category has raw > 0.
C22_MaxAdjustedScore ==
    (pc = "returned" /\ call.fn = "choose_category") =>
        \A raw \in {C22_Raw} :
            IF \A i \in DOMAIN raw : raw[i] = 0
            THEN call.res = "events"
            ELSE \E i \in DOMAIN raw :
                    /\ raw[i] > 0
                    /\ call.res = CATEGORY_RULES[i].category
                    /\ \A j \in DOMAIN raw :
                           raw[j] > 0 =>
                               10 * raw[j] - CATEGORY_RULES[j].priority
                                   <= 10 * raw[i] - CATEGORY_RULES[i].priority

\* the title holds a keyword of events (weight 3, counted twice) and the
\* body one of federationNews (weight 5): events is returned
C22_Witness ==
    /\ pc = "returned" /\ call.fn = "choose_category"
    /\ call.title = CATEGORY_RULES[11].title_keywords[4]
    /\ call.text = CATEGORY_RULES[7].content_keywords[2]
    /\ C22_Raw[11] = 6 /\ C22_Raw[7] = 5
    /\ call.res = "events"

\* C23: the priority is a tie-break only: when several categories share
\* the highest positive raw score, the one of them with the smallest
\* priority number is returned, and a category whose raw score exceeds
\* the raw score of every other category by more than 1 is returned
\* whatever its priority.
C23_PriorityBreaksTies ==
    (pc = "returned" /\ call.fn = "choose_category") =>
        \A raw \in {C22_Raw} :
            /\ \A i \in DOMAIN raw :
                   (/\ raw[i] > 0
                    /\ \A j \in DOMAIN raw : raw[j] <= raw[i]
                    /\ \E j \in DOMAIN raw : j # i /\ raw[j] = raw[i]
                    /\ \A j \in DOMAIN raw :
                           raw[j] = raw[i] =>
                               CATEGORY_RULES[i].priority
                                   <= CATEGORY_RULES[j].priority)
                   => call.res = CATEGORY_RULES[i].category
            /\ \A i \in DOMAIN raw :
                   (\A j \in DOMAIN raw : j # i => raw[i] > raw[j] + 1)
                   => call.res = CATEGORY_RULES[i].category

\* the body holds a keyword of results and one of announcements, both of
\* weight 7: results, of priority 3 against 5, is returned
C23_Witness ==
    /\ pc = "returned" /\ call.fn = "choose_category"
    /\ call.title = <<>>
    /\ C22_Raw[3] = 7 /\ C22_Raw[5] = 7
    /\ \A j \in DOMAIN CATEGORY_RULES : C22_Raw[j] <= 7
    /\ call.res = "results"

----------------------------------------------------------------------------
(* Keyword links (specification SpecArticle) *)

\* C24: after the links of an article body were rewritten, every
\* hyperlink whose visible text or original href contains a keyword of
\* PROTOCOL_LINKS has the canonical URL of the first matching keyword, in
\* the order of the table, as href; this includes the hyperlinks that
\* match the article URL pattern.
C24_KeywordLinkCanonical ==
    (call # Nil /\ call.res.outcome = "ok" /\ call.page.body # Nil) =>
        \A i \in DOMAIN call.page.body.links :
            \A k \in {FirstKeyword(call.page.body.links[i].text
                                    \cup call.page.body.links[i].href.kws)} :
                k # 0 =>
                    call.res.data.html.links[i].href =
                        [kind |-> "canonical", url |-> PROTOCOL_LINKS[k].url]

----------------------------------------------------------------------------
(* The transliteration of slugify (specification SpecText) *)

\* the slug the mapping table gives letter by letter: every character of
\* the lowercased title is looked up in the table, each maximal run of
\* characters outside [a-z0-9] becomes one hyphen, leading and trailing
\* hyphens are trimmed
C25_TableSlug(text) ==
    StripHyphens(HyphenateRuns(TranslitAll(LowerAll(text)), FALSE))

\* C25: slugify replaces every Cyrillic letter of the lowercased title by
\* the Latin string of the mapping table (short i by y, yi by yi, io by
\* yo, shcha by shch), each maximal run of the remaining characters
\* outside [a-z0-9] by one hyphen, and trims leading and trailing hyphens:
\* letters adjacent in the title stay adjacent in the slug.
C25_TableTransliteration ==
    (pc = "returned" /\ call.fn = "slugify") =>
        \A slug \in {C25_TableSlug(call.text)} :
            call.res = IF slug = <<>> THEN Untitled ELSE slug

----------------------------------------------------------------------------
(* The exported tags (specification SpecText) *)

RECURSIVE C26_Split(_, _)
\* field.split(";"): the pieces between the semicolons, cur being the
\* piece that is open; the empty field gives one empty piece
C26_Split(field, cur) ==
    IF field = <<>> THEN <<cur>>
    ELSE IF Head(field) = ";"
    THEN <<cur>> \o C26_Split(Tail(field), <<>>)
    ELSE C26_Split(Tail(field), Append(cur, Head(field)))

\* the record of the crawler that was exported is accepted, gives one
\* row, and the tags field of the row is the ";"-joined tag sequence
C26_OneRowJoined ==
    /\ call.res # Nil
    /\ Len(call.res.rows) = 1
    /\ call.res.rows[1].id = call.data[1].id
    /\ call.res.rows[1].title = call.data[1].title
    /\ call.res.rows[1].publishedAt = call.data[1].date
    /\ call.res.rows[1].tags = JoinWith(";", call.data[1].tags)
    /\ \A i \in DOMAIN call.data[1].tags :
           \A k \in DOMAIN call.data[1].tags[i] :
               call.data[1].tags[i][k] # ";"

----------------------------------------------------------------------------
(* Termination of a crawl with a limit (specification SpecLimited) *)

\* The number of listing pages a run with a limit fetches at most:
\* max_pages pages, and one page more than the smallest article limit,
\* since every page that does not end the crawl counts at least one link.
C27_FetchBound ==
    IF max_pages = None THEN ArticleLimit + 1
    ELSE IF ArticleLimit = None \/ max_pages < ArticleLimit + 1 THEN max_pages
    ELSE ArticleLimit + 1

\* scrape has returned, or the process has ended
C27_Ended == pc \in {"write", "done", "aborted"}

\* C27: with at least one of max_pages, max_articles, end_article set,
\* scrape reaches its end after a bounded number of listing fetches,
\* whatever the listing pages answer, next-page links that lead back to a
\* page already visited included: the number of fetches never exceeds
\* max_pages nor the smallest article limit plus one, and the run ends.
C27_EndsWithinBound ==
    /\ [](list_gets <= C27_FetchBound)
    /\ <>C27_Ended

\* with max_articles = 1 as the only limit the first page, whose next-page
\* link is its own URL, was fetched twice, and scrape has returned
C27_Witness ==
    /\ max_pages = None /\ max_articles = 1 /\ end_article = None
    /\ list_gets = 2 /\ fetched = {start} /\ page_url = start
    /\ pc = "write" /\ article_count = 2

----------------------------------------------------------------------------
(* Listing pages of a crawl without a limit (specification Spec) *)

\* C28: with none of max_pages, max_articles, end_article set, scrape
\* fetches no listing URL more than once in a run: the number of listing
\* fetches is the number of different listing URLs fetched. (The URLs 0, 10
\* and NoStart of the model are three listing URLs of the site; the
\* next-page link of a page may be any of them, its own URL included.)
C28_NoListingRefetch ==
    (max_pages = None /\ max_articles = None /\ end_article = None)
    => list_gets = Cardinality(fetched)

----------------------------------------------------------------------------
(* Articles whose extraction fails (specification Spec) *)

\* the URLs whose extraction failed with a caught error: seen, no record
C29_Failed == seen_links \ {records[i].url : i \in DOMAIN records}

\* C29: when parse_article fails with a caught error, the step leaves
\* records and ALL_ARTICLES_MAP (and the position in the listing) as they
\* were; seen_links has gained the URL and article_count has advanced, and
\* the for loop goes on. When the failed URL comes up again later in the
\* run, it is not fetched again and nothing is recorded for it.
C29_FailedArticleFrame ==
    [][ /\ (article_gets' = article_gets + 1
             /\ call'.res.outcome = "raise")
            => /\ records' = records
               /\ ALL_ARTICLES_MAP' = ALL_ARTICLES_MAP
               /\ seen_links' = seen_links \cup {links[idx]}
               /\ article_count' = article_count + 1
               /\ idx' = idx + 1
               /\ pc' = "links"
               /\ UNCHANGED <<page_url, pages_processed, last_offset, links,
                              next_url, out_file, writes, exit, list_gets>>
        /\ (pc = "links" /\ idx <= Len(links) /\ links[idx] \in C29_Failed)
            => /\ article_gets' = article_gets
               /\ records' = records
               /\ ALL_ARTICLES_MAP' = ALL_ARTICLES_MAP
               /\ seen_links' = seen_links ]_vars

\* the only article of the first page failed; the second page shows it
\* again, and the for loop has passed it without a fetch
C29_Witness ==
    /\ pc = "links" /\ pages_processed = 2 /\ idx = 2
    /\ links[1] \in C29_Failed
    /\ call # Nil /\ call.res.outcome = "raise" /\ call.url = links[1]
    /\ article_gets = 1 /\ article_count = 2
    /\ records = <<>> /\ ALL_ARTICLES_MAP = EmptyMap

----------------------------------------------------------------------------
(* The order of the records (specification Spec) *)

\* <<page, position>> a is before b: an earlier listing page, or the same
\* page and an earlier link
C30_Before(a, b) == a[1] < b[1] \/ (a[1] = b[1] /\ a[2] < b[2])

\* for any two records the earlier one's URL was first encountered earlier
C30_InEncounterOrder ==
    \A i, j \in DOMAIN records :
        i < j => C30_Before(encountered[records[i].url],
                            encountered[records[j].url])

\* C30: the record sequence of scrape is in crawl order: a step leaves the
\* records as they are or appends one record, and for any two records the
\* URL of the earlier one was first encountered earlier (by listing page
\* visited, then by position on the page) than the URL of the later one.
C30_CrawlOrder ==
    /\ [][ \/ records' = records
           \/ /\ Len(records') = Len(records) + 1
              /\ SubSeq(records', 1, Len(records)) = records ]_vars
    /\ []C30_InEncounterOrder

\* two records: the first page showed the first URL only, the second page
\* shows it again, in front of the URL of the second record
C30_Witness ==
    /\ Len(records) = 2 /\ pages_processed = 2 /\ Len(links) = 2
    /\ records[1].url = links[1] /\ records[2].url = links[2]
    /\ encountered[links[1]] = <<1, 1>>
    /\ encountered[links[2]] = <<2, 2>>

====
